---------------------------- MODULE Spec2Model ----------------------------
(***************************************************************************)
(* A model of tap-nice-incontact: the HTTP session manager of client.py    *)
(* (token lifecycle, response classification, retry), the incremental sync *)
(* loop of streams.py (replication-key filter and bookmark), the window    *)
(* generator generate_date_range, the export-job driver of                 *)
(* DataExtractionStream, the offset-paginated and the windowed extractors, *)
(* transform_iso8601_durations of transform.py and the stream loop of      *)
(* sync.py.                                                                *)
(*                                                                         *)
(* The specifications share the module, each running one component while   *)
(* the variables of the others rest: SpecClient the client, SpecSync the   *)
(* sync loop, SpecRange the window generator, SpecExport the export-job    *)
(* driver together with its sync loop (FairSpecExport adds the fairness of *)
(* a sequential program), SpecPage the offset-paginated extractors,        *)
(* SpecWindow the windowed extractors under their sync loop, SpecDuration  *)
(* the duration transform, SpecTap the stream loop of sync.py.             *)
(***************************************************************************)
EXTENDS Integers, Sequences, FiniteSets, TLC

VARIABLES
    \* ---- NiceInContactClient (client.py) ----
    now,                 \* dt.utcnow(), in seconds
    access_token,        \* self.access_token
    refresh_token,       \* self.refresh_token
    access_expires_at,   \* self.access_expires_at
    refresh_expires_at,  \* self.refresh_expires_at
    pc,                  \* position of the caller in _make_request
    tries,               \* attempts of the current request made so far
    ensured,             \* what _ensure_access_token did in the current attempt
    sent,                \* the API request put on the wire by the current attempt
    outcome,             \* how the last finished attempt ended
    rejected,            \* the token a 401 of the previous attempt rejected
    allRetryable,        \* every attempt of this request failed retryably
    \* ---- IncrementalStream.sync (streams.py) ----
    upstream,            \* the upstream data set, in the order the API returns it
    serverFilter,        \* whether the API applies updatedSince itself
    convert,             \* the stream's convert_data_types attribute
    stateBookmark,       \* state['bookmarks'][stream][replication_key]
    run,                 \* number of the current run of the tap
    spc,                 \* position of sync in the current run
    source,              \* what get_records yields in this run
    cursor,              \* records of source consumed so far
    bookmark_datetime,   \* local of sync
    max_datetime,        \* local of sync
    emitted,             \* singer.write_record output of this run
    counter,             \* metrics.record_counter of this run
    startBookmark,       \* the bookmark read at the start of this run
    prevOutcome,         \* how the previous run ended
    sync_error,          \* the exception that left sync in this run, if any
    n_days,              \* utils.now() - timedelta(days=30) of check_start_date
    \* ---- BaseStream.generate_date_range (streams.py) ----
    utcnow,              \* utils.now(), in seconds
    default_end_date,    \* the default of end_date, bound when the def statement ran
    start_date,          \* the start instant the caller passes
    end_arg,             \* the end instant the caller passes, if it passes one
    period,              \* the period the caller passes
    defaulted,           \* whether the caller leaves end_date out
    end_date,            \* the end instant the last call worked with
    date_list,           \* what the last call yielded
    called_at,           \* the instant of the last call
    calls,               \* number of calls made
    \* ---- DataExtractionStream (streams.py) ----
    poll_settings,       \* config.get('poll_settings'), the empty dict when absent
    elapsed,             \* datetime.utcnow() - start_time of the current job, in
                         \* seconds; the clock runs during the sleeps
    win,                 \* index in date_list of the window get_records is at
    jobs,                \* create_job calls of this run
    polls,               \* status polls of the current job
    downloads,           \* download_csv calls for the current job
    last_status,         \* what the last poll of the current job answered
    polled_at,           \* elapsed when the last poll of the current job went out
    late_sleeps,         \* sleeps of the current job that ended past poll_timeout
    rows,                \* rows downloaded for each window completed in this run
    failure,             \* the exception that ended the iteration over windows
    \* ---- offset pagination: Agents, ContactsCompleted (streams.py) ----
    page_stream,         \* the stream whose get_records runs
    page_now,            \* utils.now() when get_records is called, in seconds
    bookmark_arg,        \* the bookmark_datetime the caller passes
    page_since,          \* bookmark_datetime after check_start_date
    skip,                \* local of get_records
    exchanges,           \* the requests sent so far, each with its answer
    ppc,                 \* position of get_records
    yielded,             \* number of records yielded so far
    \* ---- transform_iso8601_durations (transform.py) ----
    data,                \* the argument: a list of records
    transformed_data,    \* the list the function returns
    dpc,                 \* position of the function: returned, or the exception
    \* ---- sync (sync.py) and the sync methods it calls (streams.py) ----
    selected,            \* catalog.get_selected_streams(state), in order
    state,               \* the state dictionary
    messages,            \* what singer wrote to stdout, in order
    tpc,                 \* position of sync
    stream_index,        \* position in selected of the stream being synced
    state_in,            \* the state handed to the running stream_obj.sync
    produced,            \* what the running stream's get_records yielded so far
    tap_bookmark,        \* bookmark_datetime of the running IncrementalStream.sync
    tap_max,             \* max_datetime of the running IncrementalStream.sync
    \* ---- the windowed extractors (streams.py) ----
    window_stream,       \* the stream whose get_records runs
    config_periods,      \* config.get('periods'), the empty dict when absent
    window_period,       \* the period get_records hands to generate_date_range
    windows,             \* what generate_date_range yields
    window_bookmark,     \* the bookmark_datetime sync hands to get_records
    window_end,          \* the end_date generate_date_range works with
    window_index,        \* position of the for loop in windows
    endpoint,            \* local of SkillsSLASummary.get_records
    paging,              \* local of SkillsSLASummary.get_records
    params,              \* local of get_records
    requests,            \* the client.get calls made so far, with their answers
    yields,              \* the records yielded so far
    window_written,      \* replication keys of the records sync wrote so far
    wpc,                 \* position of get_records
    window_failure       \* the exception that left get_records

clientVars == <<now, access_token, refresh_token, access_expires_at,
                refresh_expires_at, pc, tries, ensured, sent, outcome,
                rejected, allRetryable>>

syncVars == <<upstream, serverFilter, convert, stateBookmark, run, spc, source,
              cursor, bookmark_datetime, max_datetime, emitted, counter,
              startBookmark, prevOutcome, sync_error, n_days>>

rangeVars == <<utcnow, default_end_date, start_date, end_arg, period, defaulted,
               end_date, date_list, called_at, calls>>

exportVars == <<poll_settings, elapsed, win, jobs, polls, downloads, last_status,
                polled_at, late_sleeps, rows, failure>>

pageVars == <<page_stream, page_now, bookmark_arg, page_since, skip, exchanges,
              ppc, yielded>>

durationVars == <<data, transformed_data, dpc>>

tapVars == <<selected, state, messages, tpc, stream_index, state_in, produced,
             tap_bookmark, tap_max>>

windowVars == <<window_stream, config_periods, window_period, windows, window_bookmark, window_end,
                window_index, endpoint,
                paging, params, requests, yields, window_written, wpc,
                window_failure>>

streamVars == <<pageVars, durationVars, tapVars, windowVars>>

vars == <<clientVars, syncVars, rangeVars, exportVars, streamVars>>

None == "None"

-----------------------------------------------------------------------------
(* Bounds of the model *)

\* the clock runs from 0 to MaxTime seconds
MaxTime == 4

\* replication-key instants run from 0 to MaxStamp
MaxStamp == 2

\* an extractor yields at most MaxRecords records
MaxRecords == 2

\* the tap is run at most MaxRuns times, each run starting from the state the
\* previous one persisted
MaxRuns == 2

\* a range handed to generate_date_range spans at most MaxDays days, MaxHours hours
\* and MaxMinutes minutes, plus a part of a minute
MaxDays == 1
MaxHours == 1
MaxMinutes == 6

\* generate_date_range is called at most MaxCalls times in one process
MaxCalls == 2

\* the end of the range of an export run lies at most MaxWindows days after the
\* epoch
MaxWindows == 2

\* a page of an offset-paginated endpoint holds at most MaxPage records
MaxPage == 2

\* an offset-paginated extraction is followed for at most MaxRequests requests
MaxRequests == 3

\* transform_iso8601_durations is handed at most MaxData records
MaxData == 2

\* a record handed to transform_iso8601_durations has one or two fields
MaxFields == 2

\* in a run of the tap an extractor yields at most MaxYield records
MaxYield == 2

\* the range of a windowed extraction holds at most MaxSpan windows
MaxSpan == 2

\* a response to a window request holds up to MaxBody records
MaxBody == 2

\* the server links up to MaxChain pages into one chain
MaxChain == 2

\* MAX_RETRIES of client.py
MAX_RETRIES == 8

\* the safety margin _ensure_access_token subtracts from every lifetime
EXPIRY_MARGIN == 10

-----------------------------------------------------------------------------
(* The environment of the client: identity provider and API *)

AccessTokens == {"a1", "a2", "a3"}
RefreshTokens == {"r1", "r2"}

\* lifetimes the identity provider grants, in seconds
Lifetimes == {EXPIRY_MARGIN + 1, EXPIRY_MARGIN + 3}

\* answers of the authentication endpoint
AuthResponses ==
    [kind : {"http"}, status_code : {200}, body : {"tokens"}, expires_in : Lifetimes]
    \cup [kind : {"http"}, status_code : {401, 500}, body : {"error_json", "not_json"}]
    \cup [kind : {"conn_error"}]

\* answers of the refresh endpoint
RefreshResponses ==
    [kind : {"http"}, status_code : {200}, body : {"tokens"},
     tokenExpirationTimeSec : Lifetimes, refreshTokenExpirationTimeSec : Lifetimes]
    \cup [kind : {"http"}, status_code : {401, 500}, body : {"error_json", "not_json"}]
    \cup [kind : {"conn_error"}]

\* the identity provider never issues a token it issued before
FreshAccess == CHOOSE t \in AccessTokens : t \notin {access_token, rejected}
FreshRefresh == CHOOSE t \in RefreshTokens : t # refresh_token

Statuses == {200, 204, 302, 400, 401, 403, 404, 429, 500, 503}

ApiResponses == [kind : {"http"}, status_code : Statuses] \cup [kind : {"conn_error"}]

-----------------------------------------------------------------------------
(* client.py: exception classes and the retry decorator *)

\* the base class of each exception class
Base(cls) ==
    CASE cls = "NiceInContact401Exception" -> "NiceInContact4xxException"
      [] cls = "NiceInContact403Exception" -> "NiceInContact4xxException"
      [] cls = "NiceInContact4xxException" -> "NiceInContactException"
      [] cls = "NiceInContact5xxException" -> "NiceInContactException"
      [] cls = "NiceInContact429Exception" -> "NiceInContactException"
      [] cls = "JSONDecodeError" -> "ValueError"
      [] OTHER -> "Exception"

RECURSIVE IsInstance(_, _)
IsInstance(exc, cls) ==
    IF exc = cls THEN TRUE
    ELSE IF exc = "Exception" THEN FALSE
    ELSE IsInstance(Base(exc), cls)

\* the exception tuple handed to backoff.on_exception
RetryOn == {"NiceInContact5xxException", "NiceInContact4xxException",
            "NiceInContact403Exception", "NiceInContact401Exception",
            "ConnectionError"}

Retried(exc) == \E cls \in RetryOn : IsInstance(exc, cls)

\* a decorator that allows one call more than max_tries
GiveUpLate(made) == made > MAX_RETRIES

\* backoff gives up once the number of calls made reaches max_tries
GiveUp(made) == made >= MAX_RETRIES

\* the kinds of failure the HTTP layer is to retry: server error, unauthorized,
\* forbidden, client error, network connection failure
RetryableKind(exc) ==
    exc \in {"NiceInContact5xxException", "NiceInContact401Exception",
             "NiceInContact403Exception", "NiceInContact4xxException",
             "ConnectionError"}

\* the exceptions a caller of the client survives (DataExtractionStream.get_records);
\* every other one ends the process
Survivable == {"NiceInContact403Exception", "NiceInContact5xxException"}

-----------------------------------------------------------------------------
(* client.py: _ensure_access_token *)

\* line 109: the refresh branch
RefreshDue == refresh_token # None /\ refresh_expires_at <= now

\* line 123: the authentication branch
AuthDue == access_token = None \/ access_expires_at >= now

EnsureBranch ==
    IF RefreshDue THEN "refresh"
    ELSE IF AuthDue THEN "auth"
    ELSE "none"

NoEnsure == [branch |-> "none", idp |-> "none", result |-> "none"]
NoRequest == [token |-> None]
Sent == "at" \in DOMAIN sent
NoOutcome == [kind |-> "none"]

\* the end of an attempt that raised exc
AttemptRaises(exc, carries) ==
    /\ outcome' = [kind |-> "raised", exc |-> exc, carries |-> carries]
    /\ tries' = tries + 1
    /\ allRetryable' = (allRetryable /\ RetryableKind(exc))
    /\ pc' = IF Retried(exc) /\ ~GiveUp(tries + 1) THEN "ensure" ELSE "raised"

\* the end of an attempt that returned
AttemptReturns(results) ==
    /\ outcome' = [kind |-> "returned", results |-> results]
    /\ tries' = tries + 1
    /\ allRetryable' = FALSE
    /\ pc' = "returned"

SessionUnchanged ==
    UNCHANGED <<access_token, refresh_token, access_expires_at, refresh_expires_at>>

\* the refresh branch, lines 110-122; the status of the answer is not looked at
EnsureRefresh(r) ==
    IF r.kind = "conn_error" THEN
        /\ SessionUnchanged
        /\ ensured' = [branch |-> "refresh", idp |-> "conn_error", result |-> "ConnectionError"]
        /\ AttemptRaises("ConnectionError", "none")
        /\ sent' = NoRequest
    ELSE IF r.body = "not_json" THEN
        \* response.json() raises
        /\ SessionUnchanged
        /\ ensured' = [branch |-> "refresh", idp |-> "non_success", result |-> "JSONDecodeError"]
        /\ AttemptRaises("JSONDecodeError", "none")
        /\ sent' = NoRequest
    ELSE IF r.body = "error_json" THEN
        \* data.get('token') and data.get('refreshToken') are None, and
        \* int(data.get('tokenExpirationTimeSec')) raises TypeError
        /\ access_token' = None
        /\ refresh_token' = None
        /\ UNCHANGED <<access_expires_at, refresh_expires_at>>
        /\ ensured' = [branch |-> "refresh", idp |-> "non_success", result |-> "TypeError"]
        /\ AttemptRaises("TypeError", "none")
        /\ sent' = NoRequest
    ELSE
        /\ access_token' = FreshAccess
        /\ refresh_token' = FreshRefresh
        /\ access_expires_at' = now + r.tokenExpirationTimeSec - EXPIRY_MARGIN
        /\ refresh_expires_at' = now + r.refreshTokenExpirationTimeSec - EXPIRY_MARGIN
        /\ ensured' = [branch |-> "refresh", idp |-> "success", result |-> "ok"]
        /\ pc' = "send"
        /\ UNCHANGED <<tries, outcome, allRetryable, sent>>

\* the authentication branch, lines 124-144
EnsureAuth(r) ==
    IF r.kind = "conn_error" THEN
        /\ SessionUnchanged
        /\ ensured' = [branch |-> "auth", idp |-> "conn_error", result |-> "ConnectionError"]
        /\ AttemptRaises("ConnectionError", "none")
        /\ sent' = NoRequest
    ELSE IF r.status_code # 200 THEN
        /\ SessionUnchanged
        /\ ensured' = [branch |-> "auth", idp |-> "non_success",
                       result |-> "NiceInContactException"]
        /\ AttemptRaises("NiceInContactException", "none")
        /\ sent' = NoRequest
    ELSE
        /\ access_token' = FreshAccess
        /\ refresh_token' = FreshRefresh
        /\ access_expires_at' = now + r.expires_in - EXPIRY_MARGIN
        /\ refresh_expires_at' = now + r.expires_in - EXPIRY_MARGIN
        /\ ensured' = [branch |-> "auth", idp |-> "success", result |-> "ok"]
        /\ pc' = "send"
        /\ UNCHANGED <<tries, outcome, allRetryable, sent>>

\* _ensure_access_token(self.refresh_token), called at line 209
EnsureAccessToken ==
    /\ pc = "ensure"
    /\ CASE EnsureBranch = "refresh" -> \E r \in RefreshResponses : EnsureRefresh(r)
         [] EnsureBranch = "auth" -> \E r \in AuthResponses : EnsureAuth(r)
         [] OTHER ->
              /\ SessionUnchanged
              /\ ensured' = [branch |-> "none", idp |-> "none", result |-> "ok"]
              /\ pc' = "send"
              /\ UNCHANGED <<tries, outcome, allRetryable, sent>>
    /\ rejected' = IF pc' = "send" THEN rejected ELSE None
    /\ UNCHANGED <<now, syncVars, rangeVars, exportVars, streamVars>>

-----------------------------------------------------------------------------
(* client.py: _make_request *)

\* the chain with the client-error test moved to the front
ClassifyClientErrorFirst(status_code) ==
    IF status_code >= 400 THEN
        [kind |-> "raised", exc |-> "NiceInContact4xxException", carries |-> "text"]
    ELSE IF status_code = 204 THEN
        [kind |-> "returned", results |-> None]
    ELSE
        [kind |-> "returned", results |-> "json"]

\* lines 227-254: what one attempt does with the status of the response
Classify(status_code) ==
    IF status_code >= 500 THEN
        [kind |-> "raised", exc |-> "NiceInContact5xxException", carries |-> "text"]
    ELSE IF status_code = 429 THEN
        [kind |-> "raised", exc |-> "NiceInContact429Exception", carries |-> "response"]
    ELSE IF status_code = 401 THEN
        [kind |-> "raised", exc |-> "NiceInContact401Exception", carries |-> "status_code"]
    ELSE IF status_code = 403 THEN
        [kind |-> "raised", exc |-> "NiceInContact403Exception", carries |-> "text"]
    ELSE IF status_code >= 400 THEN
        [kind |-> "raised", exc |-> "NiceInContact4xxException", carries |-> "text"]
    ELSE IF status_code = 204 THEN
        [kind |-> "returned", results |-> None]
    ELSE
        [kind |-> "returned", results |-> "json"]

\* a 401 handler that keeps the cached access token
TokenKept(status_code, token) == token

\* line 233: a 401 resets the cached access token
TokenAfter(status_code, token) == IF status_code = 401 THEN None ELSE token

\* lines 211-256: the request goes out with the session's token and the answer is
\* classified
SendRequest(resp) ==
    /\ pc = "send"
    /\ IF resp.kind = "conn_error" THEN
           /\ sent' = [token |-> access_token, expires_at |-> access_expires_at,
                       at |-> now, answer |-> resp, retry_of |-> rejected,
                       ensure |-> ensured.branch]
           /\ AttemptRaises("ConnectionError", "none")
           /\ rejected' = None
           /\ UNCHANGED access_token
       ELSE
           LET c == Classify(resp.status_code) IN
           /\ sent' = [token |-> access_token, expires_at |-> access_expires_at,
                       at |-> now, answer |-> resp, retry_of |-> rejected,
                       ensure |-> ensured.branch]
           /\ access_token' = TokenAfter(resp.status_code, access_token)
           /\ rejected' = IF resp.status_code = 401 THEN access_token ELSE None
           /\ IF c.kind = "raised"
              THEN AttemptRaises(c.exc, c.carries)
              ELSE AttemptReturns(c.results)
    /\ UNCHANGED <<now, refresh_token, access_expires_at, refresh_expires_at, ensured,
                   syncVars, rangeVars, exportVars, streamVars>>

\* a stream calls client.get or client.post
StartRequest ==
    /\ \/ pc \in {"idle", "returned"}
       \/ pc = "raised" /\ outcome.exc \in Survivable
    /\ pc' = "ensure"
    /\ tries' = 0
    /\ ensured' = NoEnsure
    /\ sent' = NoRequest
    /\ outcome' = NoOutcome
    /\ rejected' = None
    /\ allRetryable' = TRUE
    /\ UNCHANGED <<now, access_token, refresh_token, access_expires_at,
                   refresh_expires_at, syncVars, rangeVars, exportVars, streamVars>>

\* a second passes: between requests, or in the sleep before a retry
Tick ==
    /\ pc # "send"
    /\ now < MaxTime
    /\ now' = now + 1
    /\ UNCHANGED <<access_token, refresh_token, access_expires_at, refresh_expires_at,
                   pc, tries, ensured, sent, outcome, rejected, allRetryable, syncVars, rangeVars, exportVars, streamVars>>

\* NiceInContactClient.__init__, lines 96-99
ClientInit ==
    /\ now = 0
    /\ access_token = None
    /\ refresh_token = None
    /\ access_expires_at = None
    /\ refresh_expires_at = None
    /\ pc = "idle"
    /\ tries = 0
    /\ ensured = NoEnsure
    /\ sent = NoRequest
    /\ outcome = NoOutcome
    /\ rejected = None
    /\ allRetryable = TRUE

ClientNext ==
    \/ StartRequest
    \/ EnsureAccessToken
    \/ \E resp \in ApiResponses : SendRequest(resp)
    \/ Tick

-----------------------------------------------------------------------------
(* streams.py: timestamps, records and the extractor *)

\* an ISO-8601 string: a wall-clock reading and the UTC offset written after it
IsoStrings == {s \in [wall : 0..(MaxStamp + 1), off : {0, 1}] :
                   s.wall - s.off \in 0..MaxStamp}

\* singer.utils.strptime_to_utc: the instant a string denotes, in UTC
strptime_to_utc(s) == s.wall - s.off

\* singer.utils.strftime: an instant written in UTC
strftime(t) == [wall |-> t, off |-> 0]

\* a raw record: its replication-key field, and whether it carries a field the
\* stream's schema does not declare
Records == [rk : IsoStrings, undeclared : BOOLEAN]

DataSets == UNION {[1..n -> Records] : n \in 0..MaxRecords}

\* variant of check_start_date that returns the bookmark whatever its age
check_start_date_unclamped(bookmark, horizon) == bookmark

\* BaseStream.check_start_date, with horizon the value of its local n_days
check_start_date(bookmark, horizon) == IF bookmark < horizon THEN horizon ELSE bookmark

\* ContactsCompleted.get_records: the records the API returns for updatedSince,
\* page after page, in the order the API returns them
get_records(bookmark, horizon) ==
    LET updatedSince == check_start_date(bookmark, horizon)
        Since(rec) == strptime_to_utc(rec.rk) >= updatedSince
    IN  IF serverFilter THEN SelectSeq(upstream, Since) ELSE upstream

-----------------------------------------------------------------------------
(* transform.py: convert_data_types *)

\* line 23: schema.get('properties', {}).get(field) for the record's extra
\* field; dict.get answers None for a field the properties do not declare
field_prop(record) ==
    IF record.undeclared THEN [kind |-> "None"] ELSE [kind |-> "dict"]

\* line 26: field_prop.get("type"), evaluated to build the error message
GetType(prop) ==
    IF prop.kind = "None" THEN [raised |-> "AttributeError"]
                          ELSE [raised |-> "None"]

\* lines 22-40: the exception convert_data_types leaves with, if any; the
\* message of line 26 is built before the raise of line 27 is reached
convert_data_types(record) ==
    IF record.undeclared THEN
        IF GetType(field_prop(record)).raised # "None"
            THEN GetType(field_prop(record))
            ELSE [raised |-> "SchemaMismatch"]
    ELSE [raised |-> "None"]

-----------------------------------------------------------------------------
(* streams.py: IncrementalStream.sync *)

\* a filter that drops the records equal to the bookmark
QualifiesStrictly(record_datetime, bookmark) == record_datetime > bookmark

\* a filter that lets every record through
QualifiesAlways(record_datetime, bookmark) == TRUE

\* line 159: the replication-key filter
Qualifies(record_datetime, bookmark) == record_datetime >= bookmark

\* a running maximum that starts at the epoch
InitialMaxEpoch(bookmark) == 0

\* line 149: the running maximum starts at the bookmark
InitialMax(bookmark) == bookmark

\* line 162: the running maximum
NextMax(record_datetime, bookmark, maximum) ==
    IF record_datetime >= bookmark THEN record_datetime ELSE bookmark

\* lines 144-149 and the call of get_records at line 152
SyncStart ==
    /\ spc \in {"idle", "done", "failed"}
    /\ run < MaxRuns
    /\ run' = run + 1
    /\ prevOutcome' = spc
    /\ sync_error' = "None"
    /\ startBookmark' = stateBookmark
    /\ bookmark_datetime' = strptime_to_utc(stateBookmark)
    /\ max_datetime' = InitialMax(strptime_to_utc(stateBookmark))
    /\ \E h \in 0..MaxStamp :
          /\ h >= n_days
          /\ n_days' = h
    /\ source' = get_records(bookmark_datetime', n_days')
    /\ cursor' = 0
    /\ emitted' = <<>>
    /\ counter' = 0
    /\ spc' = "loop"
    /\ UNCHANGED <<upstream, serverFilter, convert, stateBookmark, clientVars, rangeVars, exportVars, streamVars>>

\* lines 152-162: one turn of the loop over get_records
SyncRecord ==
    /\ spc = "loop"
    /\ cursor < Len(source)
    /\ LET record == source[cursor + 1]
           record_datetime == strptime_to_utc(record.rk)
       IN  IF convert /\ convert_data_types(record).raised # "None" THEN
               \* convert_data_types raises: nothing below line 154 runs
               /\ spc' = "failed"
               /\ sync_error' = convert_data_types(record).raised
               /\ UNCHANGED <<cursor, emitted, counter, max_datetime>>
           ELSE IF Qualifies(record_datetime, bookmark_datetime) THEN
               /\ emitted' = Append(emitted, record)
               /\ counter' = counter + 1
               /\ max_datetime' = NextMax(record_datetime, bookmark_datetime, max_datetime)
               /\ cursor' = cursor + 1
               /\ UNCHANGED <<spc, sync_error>>
           ELSE
               /\ cursor' = cursor + 1
               /\ UNCHANGED <<spc, sync_error, emitted, counter, max_datetime>>
    /\ UNCHANGED <<upstream, serverFilter, convert, stateBookmark, run, source,
                   bookmark_datetime, startBookmark, prevOutcome, n_days, clientVars, rangeVars, exportVars, streamVars>>

\* lines 164-171: the bookmark is written once get_records is exhausted
SyncFinish ==
    /\ spc = "loop"
    /\ cursor = Len(source)
    /\ stateBookmark' = strftime(max_datetime)
    /\ spc' = "done"
    /\ UNCHANGED <<upstream, serverFilter, convert, run, source, cursor,
                   bookmark_datetime, max_datetime, emitted, counter, startBookmark,
                   prevOutcome, sync_error, n_days, clientVars, rangeVars, exportVars, streamVars>>

SyncInit ==
    /\ upstream \in DataSets
    /\ serverFilter \in BOOLEAN
    /\ convert \in BOOLEAN
    /\ stateBookmark \in {strftime(t) : t \in 0..MaxStamp}
    /\ run = 0
    /\ spc = "idle"
    /\ source = <<>>
    /\ cursor = 0
    /\ bookmark_datetime = 0
    /\ max_datetime = 0
    /\ emitted = <<>>
    /\ counter = 0
    /\ startBookmark = stateBookmark
    /\ prevOutcome = "none"
    /\ sync_error = "None"
    /\ n_days = 0

\* the sync variables at rest
SyncRest ==
    /\ upstream = <<>>
    /\ serverFilter = FALSE
    /\ convert = FALSE
    /\ stateBookmark = strftime(0)
    /\ run = 0
    /\ spc = "idle"
    /\ source = <<>>
    /\ cursor = 0
    /\ bookmark_datetime = 0
    /\ max_datetime = 0
    /\ emitted = <<>>
    /\ counter = 0
    /\ startBookmark = stateBookmark
    /\ prevOutcome = "none"
    /\ sync_error = "None"
    /\ n_days = 0

SyncNext ==
    \/ SyncStart
    \/ SyncRecord
    \/ SyncFinish

-----------------------------------------------------------------------------
(* streams.py: BaseStream.generate_date_range *)

\* timedelta(minutes=1), timedelta(hours=1) and timedelta(days=1), in seconds
SECONDS_PER_MINUTE == 60
SECONDS_PER_HOUR == 3600
SECONDS_PER_DAY == 86400

\* int(x / y) for a timedelta x and a positive timedelta y: the quotient, cut
\* towards zero
int(x, y) == IF x >= 0 THEN x \div y ELSE -((-x) \div y)

\* timedelta.days: whole days, rounded down
days(delta) == delta \div SECONDS_PER_DAY

\* range(first, stop, step) of Python, for a positive step
range(first, stop, step) ==
    LET count == IF stop > first THEN (stop - first + step - 1) \div step ELSE 0
    IN  [i \in 1..count |-> first + (i - 1) * step]

\* a loop body that leaves new_start at start_date
AppendWindowsFromStart(steps, unit, start) ==
    [i \in 1..Len(steps) |-> <<strftime(start), strftime(start + steps[i] * unit)>>]

\* the body shared by the three loops, lines 89-91, 94-96 and 99-101: turn i
\* appends (new_start, new_end), where new_end is start plus the i-th step and
\* new_start is the new_end of the turn before, start_date in the first turn
AppendWindows(steps, unit, start) ==
    LET new_end(i) == start + steps[i] * unit
        new_start(i) == IF i = 1 THEN start ELSE new_end(i - 1)
    IN  [i \in 1..Len(steps) |-> <<strftime(new_start(i)), strftime(new_end(i))>>]

\* lines 83-103: the windows yielded for start, end and period
generate_date_range(start, end, per) ==
    IF per = "days" THEN
        AppendWindows(range(1, days(end - start) + 1, 1), SECONDS_PER_DAY, start)
    ELSE IF per = "hours" THEN
        AppendWindows(range(1, int(end - start, SECONDS_PER_HOUR) + 1, 1),
                      SECONDS_PER_HOUR, start)
    ELSE IF per = "minutes" THEN
        AppendWindows(range(5, int(end - start, SECONDS_PER_MINUTE) + 5, 5),
                      SECONDS_PER_MINUTE, start)
    ELSE <<>>

\* the values of period: the three recognised ones and the default_period of
\* WFMAgentsScorecards
Periods == {"days", "hours", "minutes", "hour"}

\* lengths of the ranges the callers hand over, in seconds
Spans == {d * SECONDS_PER_DAY + h * SECONDS_PER_HOUR + m * SECONDS_PER_MINUTE + sec :
              d \in 0..MaxDays, h \in 0..MaxHours, m \in 0..MaxMinutes, sec \in {0, 30}}

\* start instants: on a minute boundary and off it
Starts == {0, 90}

\* a caller calls generate_date_range: with the end instant it has in mind, or,
\* as every get_records does (line 306), without one
CallGenerator ==
    /\ calls < MaxCalls
    /\ end_date' = IF defaulted THEN default_end_date ELSE end_arg
    /\ date_list' = generate_date_range(start_date, end_date', period)
    /\ called_at' = utcnow
    /\ calls' = calls + 1
    /\ UNCHANGED <<utcnow, default_end_date, start_date, end_arg, period, defaulted,
                   clientVars, syncVars, exportVars, streamVars>>

\* time passes in the process
Elapse ==
    /\ utcnow < default_end_date + MaxCalls * SECONDS_PER_HOUR
    /\ utcnow' = utcnow + SECONDS_PER_HOUR
    /\ UNCHANGED <<default_end_date, start_date, end_arg, end_date, period, date_list,
                   defaulted, called_at, calls, clientVars, syncVars, exportVars, streamVars>>

\* the module has just been imported: line 72 has bound the default of end_date
\* to the value of utils.now() at that moment; the caller and its arguments are
\* fixed
RangeInit ==
    /\ start_date \in Starts
    /\ period \in Periods
    /\ defaulted \in BOOLEAN
    /\ end_arg \in (IF defaulted THEN {0} ELSE {start_date + span : span \in Spans})
    /\ default_end_date \in (IF defaulted THEN {start_date + span : span \in Spans}
                              ELSE {SECONDS_PER_DAY})
    /\ utcnow = default_end_date
    /\ end_date = 0
    /\ date_list = <<>>
    /\ called_at = 0
    /\ calls = 0

\* the generator variables at rest
RangeRest ==
    /\ start_date = 0
    /\ period = "days"
    /\ defaulted = FALSE
    /\ end_arg = 0
    /\ default_end_date = 0
    /\ utcnow = 0
    /\ end_date = 0
    /\ date_list = <<>>
    /\ called_at = 0
    /\ calls = 0

RangeNext ==
    \/ CallGenerator
    \/ Elapse

-----------------------------------------------------------------------------
(* streams.py: DataExtractionStream *)

\* poll_delay and poll_timeout of the class, lines 623 and 625
POLL_DELAY == 5
POLL_TIMEOUT == 300

\* the poll_settings a config may carry: absent, or a dict with delay, timeout
\* or both
PollSettings ==
    {ps \in UNION {[keys -> 1..3] : keys \in SUBSET {"delay", "timeout"}} :
        /\ "delay" \in DOMAIN ps => ps["delay"] \in {1, 2}
        /\ "timeout" \in DOMAIN ps => ps["timeout"] \in {2, 3}}

\* line 668: config.get('poll_settings') is truthy
HasPollSettings == DOMAIN poll_settings # {}

\* lines 666-670: the locals poll_delay and poll_timeout, where dict.get gives
\* None for a key the dict lacks
DelayIsNone == HasPollSettings /\ "delay" \notin DOMAIN poll_settings
TimeoutIsNone == HasPollSettings /\ "timeout" \notin DOMAIN poll_settings
poll_delay == IF HasPollSettings THEN poll_settings["delay"] ELSE POLL_DELAY
poll_timeout == IF HasPollSettings THEN poll_settings["timeout"] ELSE POLL_TIMEOUT

\* the exceptions a call of client.get or client.post can end with
ClientErrors == {"NiceInContact5xxException", "NiceInContact4xxException",
                 "NiceInContact401Exception", "NiceInContact403Exception",
                 "NiceInContact429Exception", "NiceInContactException",
                 "ConnectionError", "JSONDecodeError", "TypeError"}

\* the statuses a job reports
JobStatuses == {"RUNNING", "SUCCEEDED", "FAILED", "CANCELLED", "EXPIRED"}

\* what client.post answers to create_job
CreateAnswers == [kind : {"raised"}, exc : ClientErrors] \cup [kind : {"returned"}]

\* what client.get answers to get_job_details: an exception, a null body (204), a
\* body without jobStatus, or a body whose jobStatus has a status
PollAnswers ==
    [kind : {"raised"}, exc : ClientErrors]
    \cup [kind : {"returned"}, body : {"None", "no_jobStatus"}]
    \cup [kind : {"returned"}, body : {"jobStatus"}, status : JobStatuses]

\* what requests.get answers to download_csv: the rows of the CSV, or a
\* connection failure
DownloadAnswers == [kind : {"rows"}, n : 0..MaxRecords]
                   \cup [kind : {"raised"}, exc : {"ConnectionError"}]

\* an except clause without ValueError
CaughtWithoutValueError(exc) ==
    \E cls \in {"NiceInContact403Exception", "NiceInContact5xxException"} :
        IsInstance(exc, cls)

\* line 770: the exceptions get_records catches around fetch_data_export
Caught(exc) ==
    \E cls \in {"NiceInContact403Exception", "NiceInContact5xxException",
                 "ValueError"} : IsInstance(exc, cls)

\* a timeout test that allows one second more
TimedOutLate(seconds, timeout) == seconds > timeout + 1

\* line 683: the timeout test
TimedOut(seconds, timeout) == seconds > timeout

\* a dispatch that treats every status but SUCCEEDED as RUNNING
StatusBranchKeepPolling(status) ==
    IF status = "SUCCEEDED" THEN "ready" ELSE "sleep"

\* lines 693-700: what the loop does with the status of a poll
StatusBranch(status) ==
    IF status = "SUCCEEDED" THEN "ready"
    ELSE IF status = "RUNNING" THEN "sleep"
    ELSE "ValueError"

NoFailure == [win |-> 0, cause |-> "none", exc |-> "none", caught |-> FALSE]

\* exc is raised inside the try of get_records, lines 768-776: caught, it breaks
\* the loop over the windows; otherwise it leaves get_records and, sync having no
\* handler, sync
RaisedInFetch(w, cause, exc) ==
    /\ failure' = [win |-> w, cause |-> cause, exc |-> exc, caught |-> Caught(exc)]
    /\ spc' = IF Caught(exc) THEN "break" ELSE "raised"

\* what no step of the stream changes
exportFrame == <<clientVars, upstream, serverFilter, convert, source, cursor, n_days,
                 prevOutcome, sync_error, utcnow, default_end_date, start_date, end_arg, period,
                 defaulted, end_date, called_at, calls, poll_settings, streamVars>>

\* the locals of sync and what it has written
syncProgress == <<stateBookmark, run, bookmark_datetime, max_datetime, emitted,
                  counter, startBookmark>>

\* the account of the current job
jobVars == <<elapsed, polls, downloads, last_status, polled_at, late_sleeps>>

\* lines 723-731 and 759-764: sync reads the bookmark and get_records asks for
\* the windows from it, leaving end_date out
ExportSyncStart ==
    /\ spc = "idle"
    /\ run' = run + 1
    /\ startBookmark' = stateBookmark
    /\ bookmark_datetime' = strptime_to_utc(stateBookmark)
    /\ max_datetime' = InitialMax(strptime_to_utc(stateBookmark))
    /\ date_list' = generate_date_range(bookmark_datetime', default_end_date, period)
    /\ win' = 0
    /\ jobs' = 0
    /\ rows' = <<>>
    /\ failure' = NoFailure
    /\ emitted' = <<>>
    /\ counter' = 0
    /\ spc' = "window"
    /\ UNCHANGED <<stateBookmark, jobVars, exportFrame>>

\* lines 764-769 and 666-680: the next window is taken and its job created
CreateJob ==
    /\ spc = "window"
    /\ win < Len(date_list)
    /\ win' = win + 1
    /\ jobs' = jobs + 1
    /\ elapsed' = 0
    /\ polls' = 0
    /\ downloads' = 0
    /\ last_status' = "none"
    /\ polled_at' = 0
    /\ late_sleeps' = 0
    /\ \E answer \in CreateAnswers :
          IF answer.kind = "raised"
          THEN RaisedInFetch(win + 1, "create", answer.exc)
          ELSE spc' = "poll" /\ UNCHANGED failure
    /\ UNCHANGED <<date_list, rows, syncProgress, exportFrame>>

\* lines 682-700: one turn of the poll loop, up to the sleep
PollJob ==
    /\ spc = "poll"
    /\ IF TimeoutIsNone THEN
           \* a float is compared with None
           /\ RaisedInFetch(win, "timeout_check", "TypeError")
           /\ UNCHANGED jobVars
       ELSE IF TimedOut(elapsed, poll_timeout) THEN
           /\ RaisedInFetch(win, "timeout", "Exception")
           /\ UNCHANGED jobVars
       ELSE
           \E answer \in PollAnswers :
               /\ polls' = polls + 1
               /\ polled_at' = elapsed
               /\ UNCHANGED <<elapsed, downloads, late_sleeps>>
               /\ IF answer.kind = "raised" THEN
                      /\ last_status' = answer.exc
                      /\ RaisedInFetch(win, "poll", answer.exc)
                  ELSE IF answer.body = "None" THEN
                      \* 'jobStatus' not in None
                      /\ last_status' = "None"
                      /\ RaisedInFetch(win, "poll", "TypeError")
                  ELSE IF answer.body = "no_jobStatus" THEN
                      /\ last_status' = "no_jobStatus"
                      /\ RaisedInFetch(win, "missing_status", "Exception")
                  ELSE
                      /\ last_status' = answer.status
                      /\ CASE StatusBranch(answer.status) = "ready" ->
                                spc' = "download" /\ UNCHANGED failure
                           [] StatusBranch(answer.status) = "sleep" ->
                                spc' = "sleep" /\ UNCHANGED failure
                           [] OTHER -> RaisedInFetch(win, "status", "ValueError")
    /\ UNCHANGED <<date_list, win, jobs, rows, syncProgress, exportFrame>>

\* line 696: time.sleep(poll_delay)
SleepDelay ==
    /\ spc = "sleep"
    /\ IF DelayIsNone THEN
           /\ RaisedInFetch(win, "sleep", "TypeError")
           /\ UNCHANGED jobVars
       ELSE
           /\ elapsed' = elapsed + poll_delay
           /\ late_sleeps' = late_sleeps + (IF elapsed' > poll_timeout THEN 1 ELSE 0)
           /\ spc' = "poll"
           /\ UNCHANGED <<polls, downloads, last_status, polled_at, failure>>
    /\ UNCHANGED <<date_list, win, jobs, rows, syncProgress, exportFrame>>

\* lines 702 and 778-783, with the turns of the loop of sync, lines 731-744, that
\* take the records yielded: every row is stamped with the window and has the
\* window's end as its replication key
DownloadCsv ==
    /\ spc = "download"
    /\ downloads' = downloads + 1
    /\ \E answer \in DownloadAnswers :
          IF answer.kind = "raised" THEN
              /\ RaisedInFetch(win, "download", answer.exc)
              /\ UNCHANGED <<rows, emitted, counter, max_datetime>>
          ELSE
              LET record == [rk |-> date_list[win][2], undeclared |-> FALSE]
                  record_datetime == strptime_to_utc(record.rk)
                  written == answer.n > 0 /\ Qualifies(record_datetime, bookmark_datetime)
              IN  /\ rows' = Append(rows, answer.n)
                  /\ emitted' = IF written
                                 THEN emitted \o [i \in 1..answer.n |-> record]
                                 ELSE emitted
                  /\ counter' = IF written THEN counter + answer.n ELSE counter
                  /\ max_datetime' =
                        IF written
                        THEN NextMax(record_datetime, bookmark_datetime, max_datetime)
                        ELSE max_datetime
                  /\ spc' = "window"
                  /\ UNCHANGED failure
    /\ UNCHANGED <<date_list, win, jobs, elapsed, polls, last_status, polled_at,
                   late_sleeps, stateBookmark, run, bookmark_datetime, startBookmark,
                   exportFrame>>

\* lines 746-753: get_records is exhausted, by the end of the windows or by the
\* break, and sync writes the bookmark
ExportFinish ==
    /\ \/ spc = "window" /\ win = Len(date_list)
       \/ spc = "break"
    /\ stateBookmark' = strftime(max_datetime)
    /\ spc' = "done"
    /\ UNCHANGED <<date_list, win, jobs, rows, failure, jobVars, run,
                   bookmark_datetime, max_datetime, emitted, counter, startBookmark,
                   exportFrame>>

\* the export variables at rest
ExportRest ==
    /\ poll_settings = <<>>
    /\ elapsed = 0
    /\ win = 0
    /\ jobs = 0
    /\ polls = 0
    /\ downloads = 0
    /\ last_status = "none"
    /\ polled_at = 0
    /\ late_sleeps = 0
    /\ rows = <<>>
    /\ failure = NoFailure

\* a run of the tap is about to sync a data-extraction stream: the config and the
\* state file are read, the module is imported
ExportInit ==
    /\ poll_settings \in PollSettings
    /\ stateBookmark \in {strftime(0), strftime(SECONDS_PER_DAY)}
    /\ default_end_date \in {n * SECONDS_PER_DAY + SECONDS_PER_HOUR : n \in 0..MaxWindows}
    /\ utcnow = default_end_date
    /\ period = "days"
    /\ defaulted = TRUE
    /\ start_date = 0
    /\ end_arg = 0
    /\ end_date = 0
    /\ date_list = <<>>
    /\ called_at = 0
    /\ calls = 0
    /\ upstream = <<>>
    /\ serverFilter = FALSE
    /\ convert = FALSE
    /\ run = 0
    /\ spc = "idle"
    /\ source = <<>>
    /\ cursor = 0
    /\ bookmark_datetime = 0
    /\ max_datetime = 0
    /\ emitted = <<>>
    /\ counter = 0
    /\ startBookmark = stateBookmark
    /\ prevOutcome = "none"
    /\ sync_error = "None"
    /\ n_days = 0
    /\ elapsed = 0
    /\ win = 0
    /\ jobs = 0
    /\ polls = 0
    /\ downloads = 0
    /\ last_status = "none"
    /\ polled_at = 0
    /\ late_sleeps = 0
    /\ rows = <<>>
    /\ failure = NoFailure

ExportNext ==
    \/ ExportSyncStart
    \/ CreateJob
    \/ PollJob
    \/ SleepDelay
    \/ DownloadCsv
    \/ ExportFinish

-----------------------------------------------------------------------------
(* Offset pagination: Agents.get_records and ContactsCompleted.get_records *)

\* the look-back ContactsCompleted hands to check_start_date, in days
LOOKBACK_DAYS == 30

\* datetime.isoformat of an aware UTC datetime: the wall clock with offset +00:00
isoformat(t) == [wall |-> t, off |-> 0]

PageStreams == {"agents", "contacts_completed"}

\* what client.get answers to one page request: an exception, None for a 204,
\* or the parsed JSON body: the empty object, an object without the data key,
\* or an object whose data key holds n records
PageAnswers ==
    [kind : {"raised"}, exc : ClientErrors]
        \cup [kind : {"null", "empty_dict", "no_data_key"}]
        \cup [kind : {"page"}, n : 0..MaxPage]

\* bool(response): None and the empty dict are falsy, any other dict is truthy
\* whatever its data key holds
Truthy(response) == response.kind \in {"no_data_key", "page"}

\* the params of the request get_records builds at the current skip
PageParams ==
    IF page_stream = "contacts_completed"
    THEN [updatedSince |-> isoformat(page_since),
          orderBy |-> "lastUpdateTime asc",
          skip |-> skip]
    ELSE [skip |-> skip]

\* get_records is called: ContactsCompleted clamps the bookmark, Agents does not
\* look at one
PageStart ==
    /\ ppc = "idle"
    /\ page_since' =
           IF page_stream = "contacts_completed"
           THEN check_start_date(bookmark_arg,
                                 page_now - LOOKBACK_DAYS * SECONDS_PER_DAY)
           ELSE page_since
    /\ skip' = 0
    /\ ppc' = "loop"
    /\ UNCHANGED <<page_stream, page_now, bookmark_arg, exchanges, yielded,
                   durationVars, tapVars, windowVars, clientVars, syncVars, rangeVars,
                   exportVars>>

\* one turn of the while loop: the request, the truth test of the response, the
\* advance of skip and the yield of the page
PageRequest ==
    /\ ppc = "loop"
    /\ Len(exchanges) < MaxRequests
    /\ \E response \in PageAnswers :
          /\ exchanges' = Append(exchanges, [params |-> PageParams,
                                             response |-> response])
          /\ IF response.kind = "raised"
             THEN ppc' = "raised" /\ UNCHANGED <<skip, yielded>>
             ELSE IF ~Truthy(response)
             THEN ppc' = "done" /\ UNCHANGED <<skip, yielded>>
             ELSE IF response.kind = "no_data_key"
             \* len(None)
             THEN ppc' = "raised" /\ UNCHANGED <<skip, yielded>>
             ELSE /\ skip' = skip + response.n
                  /\ yielded' = yielded + response.n
                  /\ ppc' = "loop"
    /\ UNCHANGED <<page_stream, page_now, bookmark_arg, page_since,
                   durationVars, tapVars, windowVars, clientVars, syncVars, rangeVars,
                   exportVars>>

PageRest ==
    /\ page_stream = "agents"
    /\ page_now = 0
    /\ bookmark_arg = 0
    /\ page_since = 0
    /\ skip = 0
    /\ exchanges = <<>>
    /\ ppc = "idle"
    /\ yielded = 0

\* the instants get_records is called at, and the bookmarks it is called with:
\* around the look-back horizon, recent, and the call instant itself
PageNows == {31 * SECONDS_PER_DAY, 45 * SECONDS_PER_DAY}

PageBookmarks(t) ==
    {t - LOOKBACK_DAYS * SECONDS_PER_DAY + d : d \in {-SECONDS_PER_DAY, -1, 0, 1}}
        \cup {t - SECONDS_PER_DAY, t}

PageInit ==
    /\ page_stream \in PageStreams
    /\ page_now \in PageNows
    /\ bookmark_arg \in PageBookmarks(page_now)
    /\ page_since = 0
    /\ skip = 0
    /\ exchanges = <<>>
    /\ ppc = "idle"
    /\ yielded = 0

PageNext ==
    \/ PageStart
    \/ PageRequest

-----------------------------------------------------------------------------
(* transform.py: transform_iso8601_durations *)

\* a string in the ISO-8601 duration format, by its sign and its designators:
\* days, hours, minutes and seconds, the seconds in tenths ("PT1H30M", "-PT1.5S")
DurationStrings ==
    [type : {"str"}, form : {"duration"}, negative : BOOLEAN, D : {0, 1},
     H : {0, 1}, M : {0, 30}, tenths : {0, 15}]

\* the other values of a JSON field: a string that is no duration, a number,
\* a boolean, null
OtherStrings == [type : {"str"}, form : {"other"}]

NonStrings == [type : {"int"}, n : {5400}] \cup [type : {"bool", "null"}]

\* the example of the documentation, "PT1H30M"
PT1H30M ==
    [type |-> "str", form |-> "duration", negative |-> FALSE, D |-> 0, H |-> 1,
     M |-> 30, tenths |-> 0]

\* the values the model hands to the function: "PT1H30M", "-P1DT1.5S", and
\* every value that is no duration
SampleValues ==
    {d \in DurationStrings :
        \/ d = PT1H30M
        \/ d = [PT1H30M EXCEPT !.negative = TRUE, !.D = 1, !.H = 0, !.M = 0,
                               !.tenths = 15]}
        \cup OtherStrings \cup NonStrings

ISO8601Error == [raised |-> "ISO8601Error"]

\* isodate.parse_duration: a timedelta, here in tenths of a second; TypeError
\* for a value that is no string, ISO8601Error for a string in another format
parse_duration(value) ==
    IF value.type # "str" THEN [raised |-> "TypeError"]
    ELSE IF value.form # "duration" THEN ISO8601Error
    ELSE LET magnitude == 10 * (value.D * SECONDS_PER_DAY
                                + value.H * SECONDS_PER_HOUR
                                + value.M * SECONDS_PER_MINUTE) + value.tenths
         IN  [raised |-> "none",
              tenths |-> IF value.negative THEN -magnitude ELSE magnitude]

\* lines 53-57: the try block around one value; what the field becomes, or the
\* exception that leaves the block
TransformValue(value) ==
    LET parsed == parse_duration(value)
    IN  IF parsed.raised = "none"
        THEN [raised |-> "none", value |-> [type |-> "int", n |-> int(parsed.tenths, 10)]]
        ELSE IF parsed = ISO8601Error
        THEN [raised |-> "none", value |-> value]
        ELSE parsed

\* a record, as the sequence of the values of its fields
FieldRecords == UNION {[1..n -> SampleValues] : n \in 1..MaxFields}

Raises(record) == \E f \in DOMAIN record : TransformValue(record[f]).raised # "none"

\* the function: the records with every field transformed, unless a value raises
transform_iso8601_durations(list) ==
    IF \E r \in DOMAIN list : Raises(list[r])
    THEN [raised |-> "TypeError", list |-> <<>>]
    ELSE [raised |-> "none",
          list |-> [r \in DOMAIN list |->
                       [f \in DOMAIN list[r] |-> TransformValue(list[r][f]).value]]]

\* one call of the function
TransformDurations ==
    /\ dpc = "called"
    /\ LET result == transform_iso8601_durations(data)
       IN  /\ transformed_data' = result.list
           /\ dpc' = IF result.raised = "none" THEN "returned" ELSE result.raised
    /\ UNCHANGED <<data, pageVars, tapVars, windowVars, clientVars, syncVars, rangeVars,
                   exportVars>>

DurationRest ==
    /\ data = <<>>
    /\ transformed_data = <<>>
    /\ dpc = "idle"

DurationInit ==
    /\ data \in UNION {[1..n -> FieldRecords] : n \in 0..MaxData}
    /\ transformed_data = <<>>
    /\ dpc = "called"

DurationNext == TransformDurations

-----------------------------------------------------------------------------
(* sync.py: sync, with IncrementalStream.sync and FullTableStream.sync *)

\* streams of the catalog: one full-table stream and two incremental ones
TapStreams == {"agents", "contacts_completed", "skills_summary"}

replication_method(stream) == IF stream = "agents" THEN "FULL_TABLE" ELSE "INCREMENTAL"

\* config['start_date']
ConfigStartDate == strftime(0)

\* the instants a replication key or a bookmark of a run of the tap takes
TapStamps == {0, 1}

\* singer.get_bookmark
get_bookmark(st, stream, default) ==
    IF stream \in DOMAIN st.bookmarks THEN st.bookmarks[stream] ELSE default

\* singer.write_bookmark
write_bookmark(st, stream, val) ==
    [st EXCEPT !.bookmarks = [s \in DOMAIN @ \cup {stream} |->
                                 IF s = stream THEN val ELSE @[s]]]

\* variant of set_currently_syncing that leaves the state as it is
set_currently_syncing_unset(st, stream) == st

\* singer.set_currently_syncing
set_currently_syncing(st, stream) == [st EXCEPT !.currently_syncing = stream]

\* the messages of singer; during is the position in selected of the stream sync
\* was at when it wrote the message
StateMessage(st, i) == [type |-> "STATE", value |-> st, during |-> i]

SchemaMessage(stream, i) == [type |-> "SCHEMA", stream |-> stream, during |-> i]

RecordMessage(stream, record, i) ==
    [type |-> "RECORD", stream |-> stream, record |-> record, during |-> i]

\* variant of Prologue that leaves the schema message out
PrologueWithoutSchema(stream, st, i) == <<StateMessage(st, i)>>

\* sync.py lines 33-41: what sync writes before it calls stream_obj.sync
Prologue(stream, st, i) == <<StateMessage(st, i), SchemaMessage(stream, i)>>

\* variant of IncrementalLoopBody that flushes the advanced bookmark with every
\* record it writes
IncrementalLoopBodyFlushing(stream, record, bookmark, st, i) ==
    IF Qualifies(strptime_to_utc(record.rk), bookmark)
    THEN <<RecordMessage(stream, record, i),
           StateMessage(write_bookmark(st, stream, record.rk), i)>>
    ELSE <<>>

\* streams.py lines 153-161: what one turn of the loop of IncrementalStream.sync
\* writes
IncrementalLoopBody(stream, record, bookmark, st, i) ==
    IF Qualifies(strptime_to_utc(record.rk), bookmark)
    THEN <<RecordMessage(stream, record, i)>>
    ELSE <<>>

\* variant of FullTableLoopBody with the replication-key filter of the
\* incremental streams
FullTableLoopBodyFiltered(stream, record, st, i) ==
    IncrementalLoopBody(stream, record,
                        strptime_to_utc(get_bookmark(st, "contacts_completed",
                                                     ConfigStartDate)), st, i)

\* streams.py lines 200-202: what one turn of the loop of FullTableStream.sync
\* writes
FullTableLoopBody(stream, record, st, i) == <<RecordMessage(stream, record, i)>>

\* the stream sync is at
Running == selected[stream_index]

\* sync.py lines 25-43 and the start of the stream's sync method: the next
\* selected stream is announced and its extractor is called
BeginStream ==
    /\ tpc = "between"
    /\ stream_index < Len(selected)
    /\ LET i == stream_index + 1
           stream == selected[i]
           announced == set_currently_syncing(state, stream)
           start == strptime_to_utc(get_bookmark(announced, stream, ConfigStartDate))
       IN  /\ stream_index' = i
           /\ state' = announced
           /\ state_in' = announced
           /\ messages' = messages \o Prologue(stream, announced, i)
           /\ IF replication_method(stream) = "INCREMENTAL"
              THEN tap_bookmark' = start /\ tap_max' = InitialMax(start)
              ELSE UNCHANGED <<tap_bookmark, tap_max>>
    /\ produced' = <<>>
    /\ tpc' = "records"
    /\ UNCHANGED <<selected, pageVars, durationVars, windowVars, clientVars, syncVars,
                   rangeVars, exportVars>>

\* the extractor yields a record and the loop body of the sync method runs
ProduceRecord ==
    /\ tpc = "records"
    /\ Len(produced) < MaxYield
    /\ \E t \in TapStamps :
          LET record == [rk |-> strftime(t)]
          IN  /\ produced' = Append(produced, record)
              /\ IF replication_method(Running) = "INCREMENTAL"
                 THEN /\ messages' = messages \o
                            IncrementalLoopBody(Running, record, tap_bookmark, state,
                                                stream_index)
                      /\ tap_max' = IF Qualifies(t, tap_bookmark)
                                    THEN NextMax(t, tap_bookmark, tap_max)
                                    ELSE tap_max
                 ELSE /\ messages' = messages \o
                            FullTableLoopBody(Running, record, state, stream_index)
                      /\ UNCHANGED tap_max
    /\ UNCHANGED <<selected, state, tpc, stream_index, state_in, tap_bookmark,
                   pageVars, durationVars, windowVars, clientVars, syncVars, rangeVars,
                   exportVars>>

\* an exception leaves get_records or the loop body: it leaves the sync method
\* and sync
StreamRaises ==
    /\ tpc = "records"
    /\ tpc' = "raised"
    /\ UNCHANGED <<selected, state, messages, stream_index, state_in, produced,
                   tap_bookmark, tap_max, pageVars, durationVars, windowVars,
                   clientVars, syncVars, rangeVars, exportVars>>

\* the extractor is exhausted: the end of the sync method (streams.py lines
\* 164-171, 204-205) and sync.py line 44
FinishStream ==
    /\ tpc = "records"
    /\ LET returned == IF replication_method(Running) = "INCREMENTAL"
                       THEN write_bookmark(state, Running, strftime(tap_max))
                       ELSE state
       IN  /\ state' = returned
           /\ messages' = messages \o <<StateMessage(returned, stream_index),
                                        StateMessage(returned, stream_index)>>
    /\ tpc' = "between"
    /\ UNCHANGED <<selected, stream_index, state_in, produced, tap_bookmark, tap_max,
                   pageVars, durationVars, windowVars, clientVars, syncVars, rangeVars,
                   exportVars>>

\* sync.py lines 46-47
EndSync ==
    /\ tpc = "between"
    /\ stream_index = Len(selected)
    /\ state' = set_currently_syncing(state, None)
    /\ messages' = messages \o <<StateMessage(state', Len(selected) + 1)>>
    /\ tpc' = "done"
    /\ UNCHANGED <<selected, stream_index, state_in, produced, tap_bookmark, tap_max,
                   pageVars, durationVars, windowVars, clientVars, syncVars, rangeVars,
                   exportVars>>

\* the selections of the catalog: the streams of a selection, in any order
Selections ==
    {q \in UNION {[1..n -> TapStreams] : n \in 0..Cardinality(TapStreams)} :
        \A i, j \in DOMAIN q : i # j => q[i] # q[j]}

\* the state files a run starts from: for some incremental streams a bookmark,
\* later than config['start_date']
StateFiles ==
    UNION {[currently_syncing : {None, "contacts_completed"},
            bookmarks : [have -> {strftime(t) : t \in TapStamps \ {0}}]] :
           have \in SUBSET {st \in TapStreams : replication_method(st) = "INCREMENTAL"}}

TapRest ==
    /\ selected = <<>>
    /\ state = [currently_syncing |-> None, bookmarks |-> <<>>]
    /\ messages = <<>>
    /\ tpc = "idle"
    /\ stream_index = 0
    /\ state_in = state
    /\ produced = <<>>
    /\ tap_bookmark = 0
    /\ tap_max = 0

TapInit ==
    /\ selected \in Selections
    /\ state \in StateFiles
    /\ messages = <<>>
    /\ tpc = "between"
    /\ stream_index = 0
    /\ state_in = state
    /\ produced = <<>>
    /\ tap_bookmark = 0
    /\ tap_max = 0

TapNext ==
    \/ BeginStream
    \/ ProduceRecord
    \/ StreamRaises
    \/ FinishStream
    \/ EndSync

-----------------------------------------------------------------------------
(* streams.py: the windowed extractors, under IncrementalStream.sync *)

\* the streams whose get_records asks once per window of generate_date_range
WindowStreams ==
    {"skills_summary", "skills_sla_summary", "teams_performance_total",
     "wfm_skills_contacts", "wfm_skills_dialer_contacts",
     "wfm_skills_agent_performance", "wfm_agents",
     "wfm_agents_schedule_adherence", "wfm_agents_scorecards"}

\* the class attribute default_period
default_period(stream) ==
    IF stream = "wfm_agents_schedule_adherence" THEN "minutes"
    ELSE IF stream = "wfm_agents_scorecards" THEN "hour"
    ELSE "hours"

\* whether get_records looks the period up in config['periods']
ReadsConfigPeriods(stream) ==
    stream \notin {"wfm_skills_contacts", "wfm_skills_dialer_contacts",
                   "wfm_agents_schedule_adherence"}

\* whether get_records tests the response with `if not results: continue`
SkipsNoContent(stream) ==
    stream \in {"wfm_agents_schedule_adherence", "wfm_agents_scorecards"}

\* whether get_records follows the next links of a response
FollowsLinks(stream) == stream = "skills_sla_summary"

\* the class attribute replication_key
replication_key(stream) == IF SkipsNoContent(stream) THEN "callEndDate" ELSE "endDate"

\* the query parameters of a window; None for the follow-on requests of a chain
WindowParams(start, end) == [kind |-> "dict", startDate |-> start, endDate |-> end]

\* variant of NoParams: the parameters of the first request of the epoch window
StaleParams == WindowParams(strftime(0), strftime(0))

NoParams == [kind |-> "None"]

\* variant of StampOf that takes both bounds from the start of the window
StampOfStart(stream, start, end) ==
    IF SkipsNoContent(stream)
    THEN [callStartDate |-> start, callEndDate |-> start]
    ELSE [startDate |-> start, endDate |-> start]

\* the keyword arguments get_records adds to every record of a window
StampOf(stream, start, end) ==
    IF SkipsNoContent(stream)
    THEN [callStartDate |-> start, callEndDate |-> end]
    ELSE [startDate |-> start, endDate |-> end]

\* variant of dict in which the fields of the record win over the keywords
dict_record_first(rec, kwargs) ==
    [k \in DOMAIN rec \cup DOMAIN kwargs |->
        IF k \in DOMAIN rec THEN rec[k] ELSE kwargs[k]]

\* dict(rec, **kwargs): the record with the keywords added, a keyword replacing
\* a field of the same name
dict(rec, kwargs) ==
    [k \in DOMAIN rec \cup DOMAIN kwargs |->
        IF k \in DOMAIN kwargs THEN kwargs[k] ELSE rec[k]]

\* a replication-key value a record of a response may carry of its own: above
\* the bookmarks of the model, below the end of their first window
OwnKey == strftime(2 * SECONDS_PER_MINUTE)

\* the records of a response: a name, and possibly a replication-key field of
\* their own; for teams_performance_total, whose values go through
\* transform_iso8601_durations, a name, a duration, or a null
RawRecords(stream) ==
    IF stream = "teams_performance_total"
    THEN {[name |-> v] : v \in OtherStrings \cup {PT1H30M, [type |-> "null"]}}
    ELSE {[name |-> "a"],
          IF SkipsNoContent(stream)
          THEN [name |-> "a", callEndDate |-> OwnKey]
          ELSE [name |-> "a", endDate |-> OwnKey]}

\* the _links of a response: absent, without next, or with a next URL
NextUrls == {"next_a", "next_b"}

Links == {"absent", "no_next"} \cup NextUrls

\* what client.get answers to a window request: an exception, None for a 204,
\* or a body with records, links and a totalRecords count
WindowErrors == {"NiceInContact5xxException", "NiceInContact429Exception"}

WindowAnswers(stream) ==
    [kind : {"raised"}, exc : WindowErrors]
        \cup [kind : {"null"}]
        \cup {[kind |-> "body", records |-> [i \in 1..n |-> rec], links |-> l] :
                 n \in 0..MaxBody, rec \in RawRecords(stream),
                 l \in IF FollowsLinks(stream) THEN Links ELSE {"absent"}}

\* the requests made so far for a window
RequestsFor(i) == Cardinality({r \in DOMAIN requests : requests[r].window = i})

\* what the records of a response become before they are stamped, or the
\* exception raised on the way
Prepared(stream, records) ==
    IF stream = "teams_performance_total"
    THEN transform_iso8601_durations(records)
    ELSE [raised |-> "none", list |-> records]

\* the replication keys sync writes for a batch of yielded records: lines
\* 157-160 of IncrementalStream.sync
WrittenKeys(stream, batch) ==
    LET key(i) == batch[i].record[replication_key(stream)]
        Kept(i) == Qualifies(strptime_to_utc(key(i)), window_bookmark)
        kept == SelectSeq([i \in DOMAIN batch |-> i], Kept)
    IN  [j \in DOMAIN kept |-> key(kept[j])]

\* one client.get of get_records, with what follows it up to the next one: the
\* first request of the next window, or the follow-on request of a chain
WindowRequest ==
    /\ \/ wpc = "for" /\ window_index < Len(windows)
       \/ wpc = "while"
    /\ LET first == wpc = "for"
           i == IF first THEN window_index + 1 ELSE window_index
           start == windows[i][1]
           end == windows[i][2]
           request == IF first
                      THEN [window |-> i, endpoint |-> "path", paging |-> FALSE,
                            params |-> WindowParams(start, end)]
                      ELSE [window |-> i, endpoint |-> endpoint, paging |-> paging,
                            params |-> params]
           \* the request as the log keeps it, with what it was answered
           logged(response) ==
               [window |-> i, endpoint |-> request.endpoint,
                paging |-> request.paging, params |-> request.params,
                answer |-> response.kind,
                links |-> IF response.kind = "body" THEN response.links ELSE "absent"]
           raise(exc) ==
               /\ wpc' = "raised"
               /\ window_failure' = exc
               /\ UNCHANGED <<endpoint, paging, params, yields, window_written>>
       IN  /\ window_index' = i
           /\ \E response \in WindowAnswers(window_stream) :
               /\ requests' = Append(requests, logged(response))
               /\ IF response.kind = "raised" THEN raise(response.exc)
                 ELSE IF response.kind = "null" THEN
                     IF SkipsNoContent(window_stream)
                     THEN \* if not results: continue
                          /\ wpc' = "for"
                          /\ UNCHANGED <<endpoint, paging, params, yields,
                                         window_written, window_failure>>
                     ELSE IF FollowsLinks(window_stream)
                     THEN \* '_links' in None
                          raise("TypeError")
                     ELSE \* None.get
                          raise("AttributeError")
                 ELSE
                     LET prepared == Prepared(window_stream, response.records)
                         follow == FollowsLinks(window_stream)
                                       /\ response.links \in NextUrls
                         batch == [r \in DOMAIN prepared.list |->
                                      [record |-> dict(prepared.list[r],
                                                       StampOf(window_stream, start, end)),
                                       request |-> Len(requests) + 1]]
                     IN  IF prepared.raised # "none" THEN raise(prepared.raised)
                         ELSE IF follow /\ RequestsFor(i) + 1 >= MaxChain
                         THEN \* the chain is followed no further
                              FALSE
                         ELSE /\ IF follow
                                 THEN /\ paging' = TRUE
                                      /\ endpoint' = response.links
                                      /\ params' = NoParams
                                      /\ wpc' = "while"
                                 ELSE /\ paging' = request.paging
                                      /\ endpoint' = request.endpoint
                                      /\ params' = request.params
                                      /\ wpc' = "for"
                              /\ yields' = yields \o batch
                              /\ window_written' =
                                     window_written \o WrittenKeys(window_stream, batch)
                              /\ UNCHANGED window_failure
    /\ UNCHANGED <<window_stream, config_periods, window_period, windows, window_bookmark, window_end,
                   pageVars, durationVars, tapVars, clientVars, syncVars, rangeVars,
                   exportVars>>

\* the for loop finds generate_date_range exhausted
WindowsExhausted ==
    /\ wpc = "for"
    /\ window_index = Len(windows)
    /\ wpc' = "done"
    /\ UNCHANGED <<window_stream, config_periods, window_period, windows, window_bookmark, window_end,
                   window_index, endpoint, paging, params, requests, yields,
                   window_written, window_failure, pageVars, durationVars, tapVars,
                   clientVars, syncVars, rangeVars, exportVars>>

WindowRest ==
    /\ window_stream = "skills_summary"
    /\ config_periods = <<>>
    /\ window_period = "hours"
    /\ windows = <<>>
    /\ window_bookmark = 0
    /\ window_end = 0
    /\ window_index = 0
    /\ endpoint = "path"
    /\ paging = FALSE
    /\ params = NoParams
    /\ requests = <<>>
    /\ yields = <<>>
    /\ window_written = <<>>
    /\ wpc = "idle"
    /\ window_failure = "none"

\* a stream of STREAMS other than the windowed ones
OtherStream == "qm_workflows"

\* config.get('periods'): absent, or a mapping with an entry for the stream
\* itself or for another stream
PeriodsConfigs(stream) ==
    {<<>>} \cup {[s \in {over} |-> "days"] : over \in {stream, OtherStream}}

\* lines 301-304: the period get_records hands to generate_date_range;
\* dict.get answers None for a stream the mapping has no entry for
period_for(stream, periods) ==
    IF ReadsConfigPeriods(stream) /\ DOMAIN periods # {}
    THEN IF stream \in DOMAIN periods THEN periods[stream] ELSE None
    ELSE default_period(stream)

\* the seconds of one step of a period
PeriodUnit(per) ==
    IF per = "days" THEN SECONDS_PER_DAY
    ELSE IF per = "minutes" THEN 5 * SECONDS_PER_MINUTE
    ELSE SECONDS_PER_HOUR

\* the period the configuration means the stream to run with
MeantPeriod(stream, periods) ==
    IF ReadsConfigPeriods(stream) /\ stream \in DOMAIN periods
    THEN periods[stream]
    ELSE default_period(stream)

\* lines 301-306: get_records settles the period and calls generate_date_range
CallGenerateDateRange ==
    /\ wpc = "start"
    /\ window_period' = period_for(window_stream, config_periods)
    /\ windows' = generate_date_range(window_bookmark, window_end, window_period')
    /\ wpc' = "for"
    /\ UNCHANGED <<window_stream, config_periods, window_bookmark, window_end,
                   window_index, endpoint, paging, params, requests, yields,
                   window_written, window_failure, pageVars, durationVars, tapVars,
                   clientVars, syncVars, rangeVars, exportVars>>

\* sync has read the bookmark, an instant off the full minute, and calls
\* get_records: the range from the bookmark to the default of end_date holds up
\* to MaxSpan steps of the period the configuration means and a part of one
WindowInit ==
    /\ window_stream \in WindowStreams
    /\ config_periods \in PeriodsConfigs(window_stream)
    /\ window_period = None
    /\ window_bookmark \in Starts \ {0}
    /\ \E k \in 0..MaxSpan :
          window_end = window_bookmark
                         + k * PeriodUnit(MeantPeriod(window_stream, config_periods)) + 30
    /\ windows = <<>>
    /\ window_index = 0
    /\ endpoint = "path"
    /\ paging = FALSE
    /\ params = NoParams
    /\ requests = <<>>
    /\ yields = <<>>
    /\ window_written = <<>>
    /\ wpc = "start"
    /\ window_failure = "none"

WindowNext ==
    \/ CallGenerateDateRange
    \/ WindowRequest
    \/ WindowsExhausted

StreamRest == PageRest /\ DurationRest /\ TapRest /\ WindowRest

-----------------------------------------------------------------------------
(* The specifications *)

InitClient == ClientInit /\ SyncRest /\ RangeRest /\ ExportRest /\ StreamRest

InitSync == SyncInit /\ ClientInit /\ RangeRest /\ ExportRest /\ StreamRest

InitRange == RangeInit /\ ClientInit /\ SyncRest /\ ExportRest /\ StreamRest

InitExport == ExportInit /\ ClientInit /\ StreamRest

InitPage ==
    PageInit /\ DurationRest /\ TapRest /\ WindowRest /\ ClientInit /\ SyncRest /\ RangeRest /\ ExportRest

InitDuration ==
    DurationInit /\ PageRest /\ TapRest /\ WindowRest /\ ClientInit /\ SyncRest /\ RangeRest
        /\ ExportRest

InitTap ==
    TapInit /\ PageRest /\ DurationRest /\ WindowRest /\ ClientInit /\ SyncRest /\ RangeRest
        /\ ExportRest

InitWindow ==
    WindowInit /\ PageRest /\ DurationRest /\ TapRest /\ ClientInit /\ SyncRest
        /\ RangeRest /\ ExportRest

SpecClient == InitClient /\ [][ClientNext]_vars

SpecSync == InitSync /\ [][SyncNext]_vars

SpecRange == InitRange /\ [][RangeNext]_vars

SpecExport == InitExport /\ [][ExportNext]_vars

SpecPage == InitPage /\ [][PageNext]_vars

SpecDuration == InitDuration /\ [][DurationNext]_vars

SpecTap == InitTap /\ [][TapNext]_vars

SpecWindow == InitWindow /\ [][WindowNext]_vars

\* the program is single-threaded and every call returns or raises: a step that
\* can be taken is taken
FairSpecExport == SpecExport /\ WF_vars(ExportNext)

-----------------------------------------------------------------------------
(* Properties of the session manager *)

\* the step that runs _ensure_access_token
EnsureStep == pc = "ensure" /\ now' = now

\* the cached access token is there and its expiry lies ahead
TokenValid == access_token # None /\ access_expires_at > now

\* C1: every API request _make_request sends carries an access token that is
\* non-null and whose expiry has not passed at the time of sending
C1_SentTokenCurrent ==
    Sent => (sent.token # None /\ sent.expires_at >= sent.at)

\* C2: when the cached access token is non-null and not yet expired,
\* _ensure_access_token calls neither the authentication nor the refresh endpoint
\* and leaves both tokens and both expiry clocks as they are
C2_ValidTokenReused ==
    [][(EnsureStep /\ TokenValid) => (ensured'.idp = "none" /\ SessionUnchanged)]_vars

\* C3: when the identity provider answers with a non-success response, on either
\* path, _ensure_access_token fails with the authentication error, the API request
\* is not sent, and the session keeps its tokens and expiry clocks
C3_IdpFailureIsAuthError ==
    [][(EnsureStep /\ ensured'.idp = "non_success")
         => (/\ ensured'.result = "NiceInContactException"
             /\ pc' = "raised"
             /\ SessionUnchanged)]_vars

\* C8: no request is attempted more than 8 times, and a request whose every
\* attempt failed with a retryable kind is given up only after exactly 8 attempts,
\* with the exception of its last attempt
C8_RetryExhaustion ==
    /\ tries <= 8
    /\ (allRetryable /\ tries > 0 /\ tries < 8) => pc \in {"ensure", "send"}
    /\ (allRetryable /\ pc = "raised")
          => (tries = 8 /\ outcome.kind = "raised" /\ RetryableKind(outcome.exc))

\* a request of which all 8 attempts failed retryably has been given up
C8_Witness == pc = "raised" /\ allRetryable /\ tries = 8

\* the decision the status of a response calls for, case by case
ExpectedOutcome(status_code) ==
    CASE status_code >= 500 ->
           [kind |-> "raised", exc |-> "NiceInContact5xxException", carries |-> "text"]
      [] status_code = 429 ->
           [kind |-> "raised", exc |-> "NiceInContact429Exception", carries |-> "response"]
      [] status_code = 401 ->
           [kind |-> "raised", exc |-> "NiceInContact401Exception",
            carries |-> "status_code"]
      [] status_code = 403 ->
           [kind |-> "raised", exc |-> "NiceInContact403Exception", carries |-> "text"]
      [] status_code \in (400..499) \ {401, 403, 429} ->
           [kind |-> "raised", exc |-> "NiceInContact4xxException", carries |-> "text"]
      [] status_code = 204 ->
           [kind |-> "returned", results |-> None]
      [] status_code < 400 /\ status_code # 204 ->
           [kind |-> "returned", results |-> "json"]

\* C9: the outcome of an attempt is decided by the status of its response: >= 500
\* the server error, 429 the rate-limit error with the raw response, 401 the
\* unauthorized error, 403 the forbidden error, any other status >= 400 the client
\* error, 204 null, and every other status the parsed JSON body
C9_ClassificationOrder ==
    (Sent /\ sent.answer.kind = "http") => outcome = ExpectedOutcome(sent.answer.status_code)

\* an attempt answered 429 ended in the rate-limit error carrying the response
C9_Witness ==
    /\ Sent
    /\ sent.answer.kind = "http"
    /\ sent.answer.status_code = 429
    /\ outcome.kind = "raised"
    /\ outcome.exc = "NiceInContact429Exception"
    /\ outcome.carries = "response"

\* C10: a 401 clears the cached access token, and the retry that follows it goes
\* out only after a new token has been obtained by authentication or refresh:
\* never with the rejected token, never with a null one
C10_RetryAfter401Reauthenticates ==
    /\ (Sent /\ sent.answer.kind = "http" /\ sent.answer.status_code = 401 /\ pc # "send")
          => access_token = None
    /\ (Sent /\ sent.retry_of # None)
          => (/\ sent.token # None
              /\ sent.token # sent.retry_of
              /\ sent.ensure \in {"auth", "refresh"})

\* the retry of an attempt that was answered 401 has been sent
C10_Witness == Sent /\ sent.retry_of # None /\ tries >= 2

\* C11: a request answered 429 is retried like the other retryable failures: the
\* rate-limit error reaches the caller only once MAX_RETRIES attempts are made
C11_RateLimitRetried ==
    (pc = "raised" /\ outcome.exc = "NiceInContact429Exception") => tries = MAX_RETRIES

-----------------------------------------------------------------------------
(* Properties of the incremental sync *)

Instant(s) == s.wall - s.off

RECURSIVE MaxOf(_)
MaxOf(S) ==
    LET x == CHOOSE y \in S : TRUE
    IN  IF S = {x} THEN x
        ELSE LET m == MaxOf(S \ {x}) IN IF x > m THEN x ELSE m

EmittedInstants == {Instant(emitted[i].rk) : i \in DOMAIN emitted}

\* the records of seq at or above the bookmark the run started from
AtOrAboveStart(seq) ==
    LET Test(rec) == Instant(rec.rk) >= Instant(startBookmark)
    IN  SelectSeq(seq, Test)

\* C4: the bookmark a run writes is greater than or equal to the bookmark it read
C4_BookmarkMonotonic ==
    spc = "done" => Instant(stateBookmark) >= Instant(startBookmark)

\* a run that started from a bookmark above the epoch is done
C4_Witness ==
    /\ spc = "done"
    /\ Instant(startBookmark) > 0
    /\ Len(source) > 0

\* C5: the bookmark a run writes is the maximum replication-key value among the
\* records the run emitted, and the starting bookmark when it emitted none
C5_BookmarkIsMaxEmitted ==
    spc = "done" =>
        Instant(stateBookmark) =
            IF emitted = <<>> THEN Instant(startBookmark) ELSE MaxOf(EmittedInstants)

\* C6: a record is written iff its replication-key value is at or above the bookmark
\* read at the start of the run; a record below it is neither emitted nor counted
\* nor able to change the bookmark that is persisted
C6_FilterExact ==
    spc \in {"loop", "done", "failed"} =>
        /\ emitted = AtOrAboveStart(SubSeq(source, 1, cursor))
        /\ counter = Len(emitted)
        /\ max_datetime \in {Instant(startBookmark)} \cup EmittedInstants
        /\ spc = "done" => Instant(stateBookmark) = max_datetime

\* a finished run has dropped a record below the bookmark and written another
C6_Witness ==
    /\ spc = "done"
    /\ emitted # <<>>
    /\ \E i \in 1..cursor : Instant(source[i].rk) < Instant(startBookmark)

\* C7: a run that starts from the bookmark a prior completed run persisted, against
\* the same upstream data set, emits no record
C7_ReplayEmitsNothing ==
    (run >= 2 /\ prevOutcome = "done") => emitted = <<>>

\* C7, amended: such a run emits no record below the persisted bookmark, and emits
\* again every returned record at or above it
C7_ReplayEmitsFromBookmark ==
    (run >= 2 /\ prevOutcome = "done" /\ spc = "done") =>
        /\ emitted = AtOrAboveStart(source)
        /\ \A i \in DOMAIN emitted : Instant(emitted[i].rk) >= Instant(startBookmark)

\* a replay has emitted a record again and dropped an older one
C7_Witness ==
    /\ run >= 2
    /\ prevOutcome = "done"
    /\ spc = "done"
    /\ emitted # <<>>
    /\ Len(emitted) < Len(source)

-----------------------------------------------------------------------------
(* Properties of the window generator *)

\* the periods generate_date_range recognises
Granularities == {"days", "hours", "minutes"}

\* the length of one window of each granularity: 1 day, 1 hour, 5 minutes
WindowLength(per) ==
    CASE per = "days" -> SECONDS_PER_DAY
      [] per = "hours" -> SECONDS_PER_HOUR
      [] per = "minutes" -> 5 * SECONDS_PER_MINUTE

WindowStart(i) == strptime_to_utc(date_list[i][1])
WindowEnd(i) == strptime_to_utc(date_list[i][2])

\* a call with start < end and a recognised granularity has returned
RangeCalled == calls > 0 /\ start_date < end_date /\ period \in Granularities

\* C18: for start < end and a granularity of days, hours or minutes, the windows
\* come in ascending order, the first starts at start, each window's end is the
\* next window's start, and each window is exactly one unit long
C18_WindowsContiguous ==
    RangeCalled =>
        /\ date_list # <<>> => WindowStart(1) = start_date
        /\ \A i \in DOMAIN date_list :
              WindowEnd(i) - WindowStart(i) = WindowLength(period)
        /\ \A i \in 1..(Len(date_list) - 1) :
              /\ date_list[i][2] = date_list[i + 1][1]
              /\ WindowStart(i) < WindowStart(i + 1)

\* a call has yielded several five-minute windows for a range that does not start
\* on a minute boundary
C18_Witness ==
    /\ RangeCalled
    /\ period = "minutes"
    /\ start_date = 90
    /\ Len(date_list) >= 2

\* C19: for start < end the number of windows is ceil((end - start) / unit) and
\* the windows cover [start, end): a trailing partial unit is yielded as one more
\* full window, whose end lies beyond end
C19_WindowCountIsCeiling ==
    RangeCalled =>
        LET unit == WindowLength(period)
        IN  /\ Len(date_list) = (end_date - start_date + unit - 1) \div unit
            /\ date_list # <<>>
            /\ WindowEnd(Len(date_list)) >= end_date

\* C20: a call that leaves end_date out works with the instant of the call as
\* its end
C20_DefaultEndIsCallInstant ==
    (calls > 0 /\ defaulted) => end_date = called_at

-----------------------------------------------------------------------------
(* Properties of the export-job driver *)

\* the records get_records has yielded once the first k windows are completed:
\* rows[i] records for window i, each stamped with the end of window i
RECURSIVE YieldedUpTo(_)
YieldedUpTo(k) ==
    IF k = 0 THEN <<>>
    ELSE YieldedUpTo(k - 1)
         \o [j \in 1..rows[k] |-> [rk |-> date_list[k][2], undeclared |-> FALSE]]

\* the windows completed in this run that had rows
WithRows == {i \in DOMAIN rows : rows[i] > 0}

\* the bookmark that reflects the completed windows and nothing else: the end of
\* the last one that had rows, and the starting bookmark when none had
BookmarkOfCompleted ==
    IF WithRows = {} THEN Instant(startBookmark)
    ELSE Instant(date_list[MaxOf(WithRows)][2])

\* the iteration over the windows was abandoned at window failure.win and nothing
\* escaped: no later job, the earlier records kept, the bookmark theirs
WindowAbandoned ==
    /\ failure.caught
    /\ spc \in {"break", "done"}
    /\ win = failure.win
    /\ jobs = failure.win
    /\ Len(rows) < failure.win
    /\ emitted = YieldedUpTo(Len(rows))
    /\ spc = "done" => Instant(stateBookmark) = BookmarkOfCompleted

\* the export of a window failed with 403, with a server error or with a job
\* status other than RUNNING and SUCCEEDED
FailedExport ==
    \/ failure.exc \in {"NiceInContact403Exception", "NiceInContact5xxException"}
    \/ failure.cause = "status"

\* C12: when the export of a window fails with 403, 5xx or a job status other than
\* RUNNING and SUCCEEDED, no exception escapes get_records, no job is created for
\* a later window, the records of earlier windows stay yielded and the bookmark
\* sync persists reflects only the windows before the failed one
C12_FailedExportAbandonsWindow == FailedExport => WindowAbandoned

\* the job of the second window reported a failure status after the first window
\* had yielded rows, and sync has written the bookmark
C12_Witness ==
    /\ failure.cause = "status"
    /\ failure.win = 2
    /\ rows # <<>>
    /\ rows[1] > 0
    /\ spc = "done"

\* C13: when a job stays RUNNING until the poll timeout is exceeded, the window is
\* skipped, no exception escapes sync, which returns and writes state, and the
\* bookmark reflects only the windows before it
C13_TimeoutAbandonsWindow == failure.cause = "timeout" => WindowAbandoned

\* C14: a 429 answered to create_job or to a status poll abandons the window: no
\* exception escapes get_records, no later window is tried, earlier progress is
\* kept
C14_RateLimitAbandonsWindow ==
    failure.exc = "NiceInContact429Exception" => WindowAbandoned

\* C15: a poll answer without jobStatus ends the polling at once, nothing is
\* downloaded, and the window is abandoned without an exception escaping sync
C15_MissingStatusAbandonsWindow ==
    failure.cause = "missing_status" => (downloads = 0 /\ WindowAbandoned)

\* a step that polls the status of the current job, and one that downloads its
\* result
PollStep == polls' = polls + 1
DownloadStep == downloads' = downloads + 1

\* C16: the result of a job is downloaded only after a poll answered SUCCEEDED,
\* and at most once; a poll that answers RUNNING is followed by the sleep, and a
\* further poll of the job comes only after a RUNNING answer and the sleep; after
\* any other status, or a timeout, the job is neither polled nor downloaded
C16_JobStateMachine ==
    [][/\ DownloadStep =>
            (last_status = "SUCCEEDED" /\ downloads = 0 /\ failure = NoFailure)
       /\ PollStep =>
            /\ last_status \in {"none", "RUNNING"}
            /\ downloads = 0
            /\ failure = NoFailure
            /\ last_status = "RUNNING" => elapsed >= polled_at + poll_delay
       /\ (PollStep /\ last_status' = "RUNNING") => spc' = "sleep"
       /\ (PollStep /\ last_status' \notin {"RUNNING", "SUCCEEDED"})
            => spc' \in {"break", "raised"}]_vars

\* a job was polled while RUNNING, then answered SUCCEEDED, and its result has
\* been downloaded
C16_Witness ==
    /\ polls >= 2
    /\ last_status = "SUCCEEDED"
    /\ downloads = 1
    /\ spc = "window"

\* the driver is inside the poll loop of fetch_data_export
InPollLoop == spc \in {"poll", "sleep"}

\* C17: the poll loop terminates whatever the job answers; no status poll goes
\* out once the elapsed time exceeds poll_timeout, and at most one sleep of a job
\* ends past poll_timeout
C17_PollLoopTerminates ==
    /\ []((polls > 0 /\ ~TimeoutIsNone) => polled_at <= poll_timeout)
    /\ [](late_sleeps <= 1)
    /\ InPollLoop ~> ~InPollLoop

\* a job that answered RUNNING at every poll has run into the timeout, after one
\* sleep that ended past it
C17_Witness ==
    /\ failure.cause = "timeout"
    /\ last_status = "RUNNING"
    /\ late_sleeps = 1
    /\ polls >= 2

-----------------------------------------------------------------------------
(* Properties of the offset-paginated extractors *)

\* a response after which no further data can follow: a 204, or a body whose
\* result set is empty
Exhausted(response) ==
    \/ response.kind = "null"
    \/ response.kind = "page" /\ response.n = 0

\* C21: no request follows a response that is null or holds an empty result
\* set, and each request's skip is strictly greater than the one before it
C21_StopsOnNullOrEmpty ==
    \A i \in 1..(Len(exchanges) - 1) :
        /\ ~Exhausted(exchanges[i].response)
        /\ exchanges[i + 1].params.skip > exchanges[i].params.skip

\* the instant an updatedSince parameter denotes
SentSince(i) == strptime_to_utc(exchanges[i].params.updatedSince)

\* now minus 30 days, now being the instant get_records was called at
Horizon == page_now - LOOKBACK_DAYS * SECONDS_PER_DAY

\* C26: every request of ContactsCompleted carries as updatedSince the bookmark
\* when the bookmark is at most 30 days old and now minus 30 days otherwise, so
\* the value is never older than 30 days and never earlier than the bookmark
C26_UpdatedSinceClamped ==
    page_stream = "contacts_completed" =>
        \A i \in 1..Len(exchanges) :
            /\ bookmark_arg >= Horizon => SentSince(i) = bookmark_arg
            /\ bookmark_arg < Horizon => SentSince(i) = Horizon
            /\ SentSince(i) >= Horizon
            /\ SentSince(i) >= bookmark_arg

\* a bookmark older than 30 days, and two pages requested with it
C26_Witness ==
    /\ page_stream = "contacts_completed"
    /\ bookmark_arg < Horizon
    /\ Len(exchanges) >= 2

-----------------------------------------------------------------------------
(* Properties of transform_iso8601_durations *)

IsDuration(value) == value.type = "str" /\ value.form = "duration"

\* the whole seconds of a duration string, the fraction cut off
WholeSeconds(value) ==
    LET seconds == value.D * SECONDS_PER_DAY + value.H * SECONDS_PER_HOUR
                   + value.M * SECONDS_PER_MINUTE + value.tenths \div 10
    IN  IF value.negative THEN -seconds ELSE seconds

\* C30: the function returns for every list of records, with every duration
\* replaced by its whole number of seconds and every other value, string or
\* not, left as it was
C30_DurationsNeverFail ==
    dpc \notin {"idle", "called"} =>
        /\ dpc = "returned"
        /\ Len(transformed_data) = Len(data)
        /\ \A r \in DOMAIN data : \A f \in DOMAIN data[r] :
              transformed_data[r][f] =
                  IF IsDuration(data[r][f])
                  THEN [type |-> "int", n |-> WholeSeconds(data[r][f])]
                  ELSE data[r][f]

-----------------------------------------------------------------------------
(* Properties of sync *)

\* the position in selected of a stream
PositionOf(stream) == CHOOSE i \in DOMAIN selected : selected[i] = stream

\* the position in selected of the stream a message belongs to: the stream it
\* names, and for a state message the stream sync was at
MessagePosition(m) == IF m.type = "STATE" THEN m.during ELSE PositionOf(m.stream)

IsRecordOf(m, stream) == m.type = "RECORD" /\ m.stream = stream

IsSchemaOf(m, stream) == m.type = "SCHEMA" /\ m.stream = stream

\* C23: streams are processed one after another: a record of a stream follows
\* the schema message of that stream, no message of a stream follows a message
\* of a later stream, and when the schema message of a stream is written the
\* state flush that ends the stream before it is out, after all its records
C23_StreamsInSequence ==
    /\ \A j \in DOMAIN messages :
          messages[j].type = "RECORD" =>
              \E i \in 1..(j - 1) : IsSchemaOf(messages[i], messages[j].stream)
    /\ \A i, j \in DOMAIN messages :
          i < j => MessagePosition(messages[i]) <= MessagePosition(messages[j])
    /\ \A j \in DOMAIN messages :
          (messages[j].type = "SCHEMA" /\ PositionOf(messages[j].stream) > 1) =>
              LET before == selected[PositionOf(messages[j].stream) - 1]
              IN  \E i \in 1..(j - 1) :
                     /\ messages[i].type = "STATE"
                     /\ messages[i].during = PositionOf(before)
                     /\ messages[i].value.currently_syncing = before
                     /\ \A r \in DOMAIN messages :
                           IsRecordOf(messages[r], before) => r < i

\* two streams synced one after the other, each with a record written
C23_Witness ==
    /\ Len(selected) >= 2
    /\ \E r \in DOMAIN messages : IsRecordOf(messages[r], selected[1])
    /\ \E r \in DOMAIN messages : IsRecordOf(messages[r], selected[2])

\* the bookmark a state holds for a stream: a sequence of one value, or empty
BookmarkOf(st, stream) ==
    IF stream \in DOMAIN st.bookmarks THEN <<st.bookmarks[stream]>> ELSE <<>>

\* the state the run started from, as the first state message carries it
StartOfRun == messages[1].value

\* C24: while an incremental stream's extractor is still producing, and after an
\* exception has escaped mid-stream, the state and every state message written
\* so far hold for that stream the bookmark the run started with
C24_BookmarkWrittenAfterExhaustion ==
    (tpc \in {"records", "raised"} /\ replication_method(Running) = "INCREMENTAL") =>
        /\ BookmarkOf(state, Running) = BookmarkOf(StartOfRun, Running)
        /\ \A i \in DOMAIN messages :
              messages[i].type = "STATE" =>
                  BookmarkOf(messages[i].value, Running)
                      = BookmarkOf(StartOfRun, Running)

\* an exception escapes an incremental stream after a record above the bookmark
\* was written
C24_Witness ==
    /\ tpc = "raised"
    /\ replication_method(Running) = "INCREMENTAL"
    /\ \E i \in DOMAIN messages :
          /\ IsRecordOf(messages[i], Running)
          /\ strptime_to_utc(messages[i].record.rk) > tap_bookmark

\* the records written for a stream, in the order they were written
WrittenFor(stream) ==
    LET Written(m) == IsRecordOf(m, stream)
        kept == SelectSeq(messages, Written)
    IN  [i \in DOMAIN kept |-> kept[i].record]

\* C25: from the call of a full-table stream's sync to the next stream, the
\* records written for it are the records its extractor produced, one for one,
\* and the state and every state message of the stream hold the bookmarks of
\* the state handed to the sync method
C25_FullTableEmitsAllKeepsBookmarks ==
    (stream_index >= 1 /\ replication_method(Running) = "FULL_TABLE") =>
        /\ WrittenFor(Running) = produced
        /\ state.bookmarks = state_in.bookmarks
        /\ \A i \in DOMAIN messages :
              (messages[i].type = "STATE" /\ messages[i].during = stream_index) =>
                  messages[i].value.bookmarks = state_in.bookmarks

\* a full-table stream synced to its end, with a record below a bookmark the
\* state holds for another stream
C25_Witness ==
    /\ tpc = "between"
    /\ stream_index >= 1
    /\ replication_method(Running) = "FULL_TABLE"
    /\ \E i \in DOMAIN produced : \E s \in DOMAIN state.bookmarks :
          strptime_to_utc(produced[i].rk) < strptime_to_utc(state.bookmarks[s])

-----------------------------------------------------------------------------
(* Properties of the windowed extractors *)

\* C22: for a stream without a test for None, a 204 on a window raises no error
\* and the for loop goes on to the next window
C22_NoContentSkipsWindow ==
    \A r \in DOMAIN requests :
        (requests[r].answer = "null" /\ ~SkipsNoContent(window_stream)) =>
            /\ wpc # "raised"
            /\ window_failure = "none"

\* the window a yielded record came from, by the request that returned it
WindowOf(y) == requests[yields[y].request].window

\* whether a yielded record carries the bounds of a window as the stream stamps
\* them
Stamped(y, i) ==
    IF SkipsNoContent(window_stream)
    THEN /\ yields[y].record.callStartDate = windows[i][1]
         /\ yields[y].record.callEndDate = windows[i][2]
    ELSE /\ yields[y].record.startDate = windows[i][1]
         /\ yields[y].record.endDate = windows[i][2]

\* the first request of a window: the stream's path, with the window's bounds
IsFirstRequest(r, i) ==
    /\ requests[r].window = i
    /\ requests[r].endpoint = "path"
    /\ ~requests[r].paging
    /\ requests[r].params.kind = "dict"
    /\ requests[r].params.startDate = windows[i][1]
    /\ requests[r].params.endDate = windows[i][2]

\* C27: a windowed-summary extractor asks once per window, in window order, with
\* the window's bounds as startDate and endDate; every record it yields carries
\* the bounds of the window whose request returned it, and the records of a
\* window come before those of the next
C27_OneRequestPerWindow ==
    ~FollowsLinks(window_stream) =>
        /\ \A r \in DOMAIN requests : IsFirstRequest(r, r)
        /\ wpc = "done" => Len(requests) = Len(windows)
        /\ \A y \in DOMAIN yields : Stamped(y, WindowOf(y))
        /\ \A y, z \in DOMAIN yields : y < z => WindowOf(y) <= WindowOf(z)

\* an extraction over two windows that ran to its end, with records to both
C27_Witness ==
    /\ ~FollowsLinks(window_stream)
    /\ wpc = "done"
    /\ Len(windows) >= 2
    /\ \E y, z \in DOMAIN yields : WindowOf(y) = 1 /\ WindowOf(z) = 2

\* a follow-on request of a chain: the next URL the response before it gave, as
\* it stands, with the paging flag and without parameters
IsFollowOn(r) ==
    /\ requests[r].window = requests[r - 1].window
    /\ requests[r].endpoint = requests[r - 1].links
    /\ requests[r].paging
    /\ requests[r].params.kind = "None"

\* C28: in SkillsSLASummary.get_records a response with a next link is followed
\* by the follow-on request of its chain, and only a response without one by the
\* first request of the next window; every record of every page carries the
\* bounds of the window the chain started with
C28_ChainFollowedWithinWindow ==
    window_stream = "skills_sla_summary" =>
        /\ \A r \in DOMAIN requests :
              IF r > 1 /\ requests[r - 1].links \in NextUrls
              THEN IsFollowOn(r)
              ELSE IsFirstRequest(r, IF r = 1 THEN 1 ELSE requests[r - 1].window + 1)
        /\ (requests # <<>> /\ requests[Len(requests)].links \in NextUrls) =>
              wpc = "while"
        /\ \A y \in DOMAIN yields : Stamped(y, WindowOf(y))

\* a chain of two pages in the first window, records on both, and then the
\* first request of the second window
C28_Witness ==
    /\ window_stream = "skills_sla_summary"
    /\ Len(requests) >= 3
    /\ requests[1].links \in NextUrls
    /\ requests[3].window = 2
    /\ \E y, z \in DOMAIN yields : yields[y].request = 1 /\ yields[z].request = 2

\* C29: the replication keys of the records a windowed stream's sync writes in a
\* run never decrease
C29_WrittenKeysNonDecreasing ==
    \A i, j \in DOMAIN window_written :
        i < j => strptime_to_utc(window_written[i]) <= strptime_to_utc(window_written[j])

\* records of two windows written, the keys of the first below those of the last
C29_Witness ==
    /\ Len(window_written) >= 2
    /\ strptime_to_utc(window_written[1])
           < strptime_to_utc(window_written[Len(window_written)])
    /\ \E r \in DOMAIN requests : requests[r].window = 2 /\ requests[r].answer = "body"

-----------------------------------------------------------------------------
(* Properties of convert_data_types under IncrementalStream.sync *)

\* the record the loop of sync stopped at
StoppedAt == source[cursor + 1]

\* C31: when convert_data_types meets a record field the stream's schema does
\* not declare, it fails with SchemaMismatch, the record is not emitted, and the
\* sync stops without persisting a new bookmark
C31_UndeclaredFieldIsSchemaMismatch ==
    spc = "failed" =>
        /\ StoppedAt.undeclared
        /\ sync_error = "SchemaMismatch"
        /\ Len(emitted) <= cursor
        /\ stateBookmark = startBookmark

-----------------------------------------------------------------------------
(* Properties of currently_syncing in the state messages of sync *)

\* positions in messages of the state messages
StatePositions == {k \in 1..Len(messages) : messages[k].type = "STATE"}

\* the last state message written
LastStateMessage ==
    messages[CHOOSE k \in StatePositions : \A j \in StatePositions : j <= k]

\* C32: every state message written between the start and the end of a
\* stream's processing has currently_syncing equal to that stream; the last
\* state message of a run that completes has currently_syncing null; and if an
\* exception escapes a stream, the last state message written names that stream
C32_CurrentlySyncingNamesStream ==
    /\ \A k \in StatePositions :
          messages[k].during \in 1..Len(selected) =>
              messages[k].value.currently_syncing = selected[messages[k].during]
    /\ tpc = "done" =>
          /\ messages[Len(messages)].type = "STATE"
          /\ messages[Len(messages)].value.currently_syncing = None
    /\ tpc = "raised" =>
          /\ StatePositions # {}
          /\ LastStateMessage.value.currently_syncing = Running

\* an exception escapes the second stream of a run after it wrote a record,
\* the first stream having completed
C32_Witness ==
    /\ tpc = "raised"
    /\ stream_index = 2
    /\ messages[Len(messages)].type = "RECORD"
    /\ \E k \in StatePositions : messages[k].during = 1 /\ k > 2
    /\ LastStateMessage.during = 2

-----------------------------------------------------------------------------
(* Properties of the granularity of the windowed extractors *)

\* C33: with no periods override, every windowed stream hands generate_date_range
\* a granularity it recognises, so an extraction whose range from the bookmark to
\* the end spans at least one unit has issued at least one request when it ends
C33_DefaultGranularityRecognised ==
    (/\ DOMAIN config_periods = {}
     /\ window_end - window_bookmark >= PeriodUnit(default_period(window_stream))
     /\ wpc \in {"done", "raised"})
        => requests # <<>>

\* the windows the stream's own default granularity gives for the range
DefaultWindows ==
    generate_date_range(window_bookmark, window_end, default_period(window_stream))

\* C34: when the config holds a periods mapping with no entry for a stream, the
\* stream runs with its own default granularity: the windows generated for it
\* are the ones generated without the mapping
C34_OverrideLeavesOtherStreams ==
    (/\ wpc # "start"
     /\ DOMAIN config_periods # {}
     /\ window_stream \notin DOMAIN config_periods)
        => windows = DefaultWindows

-----------------------------------------------------------------------------
(* Properties of the poll settings of fetch_data_export *)

\* the locals poll_delay and poll_timeout after line 670: a number, or None
LocalDelay ==
    IF DelayIsNone THEN [kind |-> "None"] ELSE [kind |-> "int", n |-> poll_delay]

LocalTimeout ==
    IF TimeoutIsNone THEN [kind |-> "None"] ELSE [kind |-> "int", n |-> poll_timeout]

\* C35: when poll_settings supplies only one of delay and timeout, the other
\* keeps its default of 5 and 300 seconds; the poll loop always runs with a
\* numeric delay and a numeric timeout
C35_PartialPollSettingsKeepDefaults ==
    InPollLoop =>
        /\ LocalDelay.kind = "int"
        /\ LocalTimeout.kind = "int"
        /\ "delay" \notin DOMAIN poll_settings => LocalDelay.n = POLL_DELAY
        /\ "timeout" \notin DOMAIN poll_settings => LocalTimeout.n = POLL_TIMEOUT


=============================================================================
